---------------------------- MODULE Spec2Model ----------------------------
(***************************************************************************)
(* MoltBond (src/contracts/MoltBond.sol): agent registry, stake ledger,    *)
(* two-party escrow deals and the reputation score, together with the      *)
(* ERC-20 token the contract holds its funds in.                           *)
(*                                                                         *)
(* One transaction is one step.  A transaction is computed by operators    *)
(* over an execution record `s` (the contract storage, the token balances, *)
(* the reentrancy-guard flag, the events and the order of storage writes   *)
(* and token transfers so far); a failed require leaves s.ok = FALSE and   *)
(* the step reverts to the storage before the call.  The allowance of the  *)
(* contract over every identity's tokens is unlimited, as the tests set it.*)
(*                                                                         *)
(* In Spec the token is a plain ERC-20 (USDC, MockUSDC): a transfer calls  *)
(* nobody.  The execution record also carries an optional call `cb` that   *)
(* a token with transfer hooks would let the recipient of a transfer make  *)
(* into MoltBond while that transfer is in flight.                         *)
(***************************************************************************)
EXTENDS Integers, Sequences, FiniteSets, TLC

\* ------------------------------------------------------------ constants
MIN_STAKE == 1000000
UNSTAKE_COOLDOWN == 86400
DEFAULT_EXPIRY == 604800
SLASH_PERCENT == 10

\* --------------------------------------------------------------- bounds
\* deals.length never exceeds MaxDeals
MaxDeals == 2
\* an agent's staked balance never exceeds MaxStakeUnits * MIN_STAKE
MaxStakeUnits == 51
\* block.timestamp advances at most MaxTicks times
MaxTicks == 1
\* at most MaxSteps steps (successful transactions and advances of the clock)
MaxSteps == 6

Addr == {"a1", "a2", "a3"}
Vault == "vault"
StartTime == 1
AliceName == <<"A", "l", "i", "c", "e">>
LongName == [i \in 1..33 |-> "x"]
\* nine characters outside the Basic Multilingual Plane: 36 bytes of UTF-8
CrabName == [i \in 1..9 |-> "U+1F980"]
Names == {<<>>, AliceName, LongName, CrabName}
StakeAmounts == {MIN_STAKE - 1, 25 * MIN_STAKE + 5}
DealAmounts == {0, 1000 * MIN_STAKE}
ExpiryDurations == {0}
TickSteps == {UNSTAKE_COOLDOWN, DEFAULT_EXPIRY}
\* the identities that stake, that create deals, and that are named as
\* counterparty (besides the creator itself)
Stakers == {"a1", "a2"}
Creators == {"a1", "a3"}
Counterparties == {"a2"}
\* tokens minted to each identity before the first call; their sum stays
\* below 2^31
InitBal == [a \in Addr |-> IF a \in Creators THEN 1030 * MIN_STAKE ELSE 60 * MIN_STAKE]

VARIABLES agents, agentList, deals, unstakeRequestedAt, bal, now, ticks, steps

vars == <<agents, agentList, deals, unstakeRequestedAt, bal, now, ticks, steps>>

\* ---------------------------------------------------------------- types
NoAgent ==
    [name |-> <<>>, staked |-> 0, dealsCompleted |-> 0, dealsFailed |-> 0,
     totalVolume |-> 0, registeredAt |-> 0, exists |-> FALSE]

NoCall == [op |-> "none", cp |-> "a1", amt |-> 0, id |-> 0, name |-> <<>>, dur |-> 0, at |-> 0]

DealIds == 0 .. (MaxDeals - 1)

\* deals is a Solidity array indexed from 0; the sequence is indexed from 1
DealAt(ds, id) == ds[id + 1]

\* ------------------------------------------------------ execution record
Start(cb) ==
    [agents |-> agents, agentList |-> agentList, deals |-> deals,
     unstakeRequestedAt |-> unstakeRequestedAt, bal |-> bal, now |-> now,
     entered |-> FALSE, events |-> <<>>, trace |-> <<>>, nxfer |-> 0,
     cb |-> cb, cbRan |-> FALSE, cbBook |-> <<>>,
     ok |-> TRUE, err |-> "", ret |-> 0]

Book(s) == <<s.agents, s.agentList, s.deals, s.unstakeRequestedAt>>

Fail(s, msg) == [s EXCEPT !.ok = FALSE, !.err = msg]

\* a storage write of the contract's bookkeeping
Wrote(s) == [s EXCEPT !.trace = Append(@, "write")]

Emit(s, e) == [s EXCEPT !.events = Append(@, e)]

\* the larger of the two
_min_Larger(a, b) == IF a < b THEN b ELSE a

_min(a, b) == IF a < b THEN a ELSE b

\* ---------------------------------------------------------------- token
RECURSIVE Dispatch(_, _, _)

\* a token with transfer hooks notifies the recipient `who` of a transfer,
\* and the recipient makes the call s.cb into the contract while transfer
\* number s.cb.at of the transaction is in flight; a revert of that call
\* reverts the transaction
Hook(s, who) ==
    IF s.cb.op # "none" /\ s.cb.at = s.nxfer /\ who # Vault
    THEN LET inner == Dispatch([s EXCEPT !.cb = NoCall, !.trace = <<>>], who, s.cb)
         IN  IF ~inner.ok THEN inner
             ELSE [inner EXCEPT !.trace = s.trace, !.nxfer = s.nxfer,
                                !.cbRan = TRUE, !.cbBook = Book(inner)]
    ELSE s

\* IERC20.transfer / transferFrom through SafeERC20: reverts when the
\* sender's balance is short, moves the tokens, then notifies the recipient
TokenMove(s, from, to, amount) ==
    IF s.bal[from] < amount THEN Fail(s, "ERC20: transfer amount exceeds balance")
    ELSE Hook([s EXCEPT !.bal = [@ EXCEPT ![from] = @ - amount, ![to] = s.bal[to] + amount],
                        !.trace = Append(@, "transfer"),
                        !.nxfer = @ + 1], to)

safeTransferFrom(s, from, amount) == TokenMove(s, from, Vault, amount)

safeTransfer(s, to, amount) == TokenMove(s, Vault, to, amount)

\* ------------------------------------------------------ ReentrancyGuard
nonReentrantBefore(s) ==
    IF s.entered THEN Fail(s, "ReentrancyGuardReentrantCall")
    ELSE [s EXCEPT !.entered = TRUE]

nonReentrantAfter(s) == IF s.ok THEN [s EXCEPT !.entered = FALSE] ELSE s

\* ------------------------------------------------------ agent management
\* a name is a sequence of characters, and bytes(_name).length counts the
\* bytes of its UTF-8 encoding: 1 for an ASCII character, 4 for a character
\* written "U+1xxxx"
Utf8Width(ch) == IF ch = "U+1F980" THEN 4 ELSE 1

RECURSIVE ByteLength(_)
ByteLength(name) ==
    IF name = <<>> THEN 0 ELSE Utf8Width(Head(name)) + ByteLength(Tail(name))

\* registerAgent without the upper bound on the name
registerAgent_NoLengthCap(s, sender, name) ==
    IF s.agents[sender].exists THEN Fail(s, "Already registered")
    ELSE IF ~(ByteLength(name) > 0) THEN Fail(s, "Invalid name length")
    ELSE LET s1 == Wrote([s EXCEPT !.agents[sender] =
                       [name |-> name, staked |-> 0, dealsCompleted |-> 0,
                        dealsFailed |-> 0, totalVolume |-> 0,
                        registeredAt |-> s.now, exists |-> TRUE]])
             s2 == Wrote([s1 EXCEPT !.agentList = Append(@, sender)])
         IN  Emit(s2, "AgentRegistered")

\* registerAgent without the push onto agentList
registerAgent_NoListPush(s, sender, name) ==
    IF s.agents[sender].exists THEN Fail(s, "Already registered")
    ELSE IF ~(ByteLength(name) > 0 /\ ByteLength(name) <= 32)
         THEN Fail(s, "Invalid name length")
    ELSE LET s1 == Wrote([s EXCEPT !.agents[sender] =
                       [name |-> name, staked |-> 0, dealsCompleted |-> 0,
                        dealsFailed |-> 0, totalVolume |-> 0,
                        registeredAt |-> s.now, exists |-> TRUE]])
         IN  Emit(s1, "AgentRegistered")

\* registerAgent without the check that the caller is new
registerAgent_NoExistsCheck(s, sender, name) ==
    IF ~(ByteLength(name) > 0 /\ ByteLength(name) <= 32)
    THEN Fail(s, "Invalid name length")
    ELSE LET s1 == Wrote([s EXCEPT !.agents[sender] =
                       [name |-> name, staked |-> 0, dealsCompleted |-> 0,
                        dealsFailed |-> 0, totalVolume |-> 0,
                        registeredAt |-> s.now, exists |-> TRUE]])
             s2 == Wrote([s1 EXCEPT !.agentList = Append(@, sender)])
         IN  Emit(s2, "AgentRegistered")

registerAgent(s, sender, name) ==
    IF s.agents[sender].exists THEN Fail(s, "Already registered")
    ELSE IF ~(ByteLength(name) > 0 /\ ByteLength(name) <= 32)
         THEN Fail(s, "Invalid name length")
    ELSE LET s1 == Wrote([s EXCEPT !.agents[sender] =
                       [name |-> name, staked |-> 0, dealsCompleted |-> 0,
                        dealsFailed |-> 0, totalVolume |-> 0,
                        registeredAt |-> s.now, exists |-> TRUE]])
             s2 == Wrote([s1 EXCEPT !.agentList = Append(@, sender)])
         IN  Emit(s2, "AgentRegistered")

\* stake that leaves a pending unstake request in place
stakeBody_KeepsRequest(s, sender, amount) ==
    IF ~s.agents[sender].exists THEN Fail(s, "Not registered")
    ELSE IF ~(amount >= MIN_STAKE) THEN Fail(s, "Below minimum stake")
    ELSE LET s1 == safeTransferFrom(s, sender, amount)
         IN  IF ~s1.ok THEN s1
             ELSE Emit(Wrote([s1 EXCEPT !.agents[sender].staked = @ + amount]), "Staked")

\* stake that sets the staked balance to the amount
stakeBody_Overwrite(s, sender, amount) ==
    IF ~s.agents[sender].exists THEN Fail(s, "Not registered")
    ELSE IF ~(amount >= MIN_STAKE) THEN Fail(s, "Below minimum stake")
    ELSE LET s1 == safeTransferFrom(s, sender, amount)
         IN  IF ~s1.ok THEN s1
             ELSE LET s2 == Wrote([s1 EXCEPT !.agents[sender].staked = amount])
                      s3 == Wrote([s2 EXCEPT !.unstakeRequestedAt[sender] = 0])
                  IN  Emit(s3, "Staked")

\* stake without the minimum check
stakeBody_NoMinimum(s, sender, amount) ==
    IF ~s.agents[sender].exists THEN Fail(s, "Not registered")
    ELSE LET s1 == safeTransferFrom(s, sender, amount)
         IN  IF ~s1.ok THEN s1
             ELSE LET s2 == Wrote([s1 EXCEPT !.agents[sender].staked = @ + amount])
                      s3 == Wrote([s2 EXCEPT !.unstakeRequestedAt[sender] = 0])
                  IN  Emit(s3, "Staked")

stakeBody(s, sender, amount) ==
    IF ~s.agents[sender].exists THEN Fail(s, "Not registered")
    ELSE IF ~(amount >= MIN_STAKE) THEN Fail(s, "Below minimum stake")
    ELSE LET s1 == safeTransferFrom(s, sender, amount)
         IN  IF ~s1.ok THEN s1
             ELSE LET s2 == Wrote([s1 EXCEPT !.agents[sender].staked = @ + amount])
                      s3 == Wrote([s2 EXCEPT !.unstakeRequestedAt[sender] = 0])
                  IN  Emit(s3, "Staked")

stake(s, sender, amount) ==
    LET g == nonReentrantBefore(s)
    IN  IF ~g.ok THEN g ELSE nonReentrantAfter(stakeBody(g, sender, amount))

\* requestUnstake that keeps the time of a request already pending
requestUnstake_KeepsFirst(s, sender) ==
    IF ~s.agents[sender].exists THEN Fail(s, "Not registered")
    ELSE IF ~(s.agents[sender].staked > 0) THEN Fail(s, "Nothing staked")
    ELSE IF s.unstakeRequestedAt[sender] > 0 THEN Emit(s, "UnstakeRequested")
    ELSE Emit(Wrote([s EXCEPT !.unstakeRequestedAt[sender] = s.now]), "UnstakeRequested")

requestUnstake(s, sender) ==
    IF ~s.agents[sender].exists THEN Fail(s, "Not registered")
    ELSE IF ~(s.agents[sender].staked > 0) THEN Fail(s, "Nothing staked")
    ELSE Emit(Wrote([s EXCEPT !.unstakeRequestedAt[sender] = s.now]), "UnstakeRequested")

\* unstake that leaves the request in place when the stake reaches 0
unstakeBody_NeverClears(s, sender, amount) ==
    IF ~s.agents[sender].exists THEN Fail(s, "Not registered")
    ELSE IF ~(s.agents[sender].staked >= amount) THEN Fail(s, "Insufficient stake")
    ELSE IF ~(s.unstakeRequestedAt[sender] > 0) THEN Fail(s, "No unstake requested")
    ELSE IF ~(s.now >= s.unstakeRequestedAt[sender] + UNSTAKE_COOLDOWN)
         THEN Fail(s, "Cooldown not elapsed")
    ELSE LET s1 == Wrote([s EXCEPT !.agents[sender].staked = @ - amount])
             s2 == safeTransfer(s1, sender, amount)
         IN  IF ~s2.ok THEN s2 ELSE Emit(s2, "Unstaked")

\* unstake that always clears the request
unstakeBody_AlwaysClears(s, sender, amount) ==
    IF ~s.agents[sender].exists THEN Fail(s, "Not registered")
    ELSE IF ~(s.agents[sender].staked >= amount) THEN Fail(s, "Insufficient stake")
    ELSE IF ~(s.unstakeRequestedAt[sender] > 0) THEN Fail(s, "No unstake requested")
    ELSE IF ~(s.now >= s.unstakeRequestedAt[sender] + UNSTAKE_COOLDOWN)
         THEN Fail(s, "Cooldown not elapsed")
    ELSE LET s1 == Wrote([s EXCEPT !.agents[sender].staked = @ - amount])
             s2 == safeTransfer(s1, sender, amount)
         IN  IF ~s2.ok THEN s2
             ELSE Emit(Wrote([s2 EXCEPT !.unstakeRequestedAt[sender] = 0]), "Unstaked")

\* unstake without the cooldown check
unstakeBody_NoCooldown(s, sender, amount) ==
    IF ~s.agents[sender].exists THEN Fail(s, "Not registered")
    ELSE IF ~(s.agents[sender].staked >= amount) THEN Fail(s, "Insufficient stake")
    ELSE IF ~(s.unstakeRequestedAt[sender] > 0) THEN Fail(s, "No unstake requested")
    ELSE LET s1 == Wrote([s EXCEPT !.agents[sender].staked = @ - amount])
             s2 == safeTransfer(s1, sender, amount)
         IN  IF ~s2.ok THEN s2
             ELSE LET s3 == IF s2.agents[sender].staked = 0
                            THEN Wrote([s2 EXCEPT !.unstakeRequestedAt[sender] = 0])
                            ELSE s2
                  IN  Emit(s3, "Unstaked")

\* unstake that pays out without debiting the staked balance
unstakeBody_NoDebit(s, sender, amount) ==
    IF ~s.agents[sender].exists THEN Fail(s, "Not registered")
    ELSE IF ~(s.agents[sender].staked >= amount) THEN Fail(s, "Insufficient stake")
    ELSE IF ~(s.unstakeRequestedAt[sender] > 0) THEN Fail(s, "No unstake requested")
    ELSE IF ~(s.now >= s.unstakeRequestedAt[sender] + UNSTAKE_COOLDOWN)
         THEN Fail(s, "Cooldown not elapsed")
    ELSE LET s2 == safeTransfer(s, sender, amount)
         IN  IF ~s2.ok THEN s2 ELSE Emit(s2, "Unstaked")

unstakeBody(s, sender, amount) ==
    IF ~s.agents[sender].exists THEN Fail(s, "Not registered")
    ELSE IF ~(s.agents[sender].staked >= amount) THEN Fail(s, "Insufficient stake")
    ELSE IF ~(s.unstakeRequestedAt[sender] > 0) THEN Fail(s, "No unstake requested")
    ELSE IF ~(s.now >= s.unstakeRequestedAt[sender] + UNSTAKE_COOLDOWN)
         THEN Fail(s, "Cooldown not elapsed")
    ELSE LET s1 == Wrote([s EXCEPT !.agents[sender].staked = @ - amount])
             s2 == safeTransfer(s1, sender, amount)
         IN  IF ~s2.ok THEN s2
             ELSE LET s3 == IF s2.agents[sender].staked = 0
                            THEN Wrote([s2 EXCEPT !.unstakeRequestedAt[sender] = 0])
                            ELSE s2
                  IN  Emit(s3, "Unstaked")

unstake(s, sender, amount) ==
    LET g == nonReentrantBefore(s)
    IN  IF ~g.ok THEN g ELSE nonReentrantAfter(unstakeBody(g, sender, amount))

\* createDeal that accepts the creator as counterparty
createDealBody_NoSelfCheck(s, sender, counterparty, amount, expiryDuration) ==
    IF ~s.agents[sender].exists THEN Fail(s, "Creator not registered")
    ELSE IF ~s.agents[counterparty].exists THEN Fail(s, "Counterparty not registered")
    ELSE IF ~(amount > 0) THEN Fail(s, "Amount must be positive")
    ELSE LET expiry == IF expiryDuration > 0 THEN expiryDuration ELSE DEFAULT_EXPIRY
             s1 == safeTransferFrom(s, sender, amount)
         IN  IF ~s1.ok THEN s1
             ELSE LET dealId == Len(s1.deals)
                      s2 == Wrote([s1 EXCEPT !.deals = Append(@,
                               [id |-> dealId, creator |-> sender,
                                counterparty |-> counterparty, amount |-> amount,
                                description |-> "Task", status |-> "Active",
                                createdAt |-> s1.now, expiresAt |-> s1.now + expiry,
                                creatorConfirmed |-> FALSE,
                                counterpartyConfirmed |-> FALSE]),
                              !.ret = dealId])
                  IN  Emit(s2, "DealCreated")

\* createDeal that always uses the default expiry
createDealBody_AlwaysDefaultExpiry(s, sender, counterparty, amount, expiryDuration) ==
    IF ~s.agents[sender].exists THEN Fail(s, "Creator not registered")
    ELSE IF ~s.agents[counterparty].exists THEN Fail(s, "Counterparty not registered")
    ELSE IF ~(sender # counterparty) THEN Fail(s, "Cannot deal with self")
    ELSE IF ~(amount > 0) THEN Fail(s, "Amount must be positive")
    ELSE LET s1 == safeTransferFrom(s, sender, amount)
         IN  IF ~s1.ok THEN s1
             ELSE LET dealId == Len(s1.deals)
                      s2 == Wrote([s1 EXCEPT !.deals = Append(@,
                               [id |-> dealId, creator |-> sender,
                                counterparty |-> counterparty, amount |-> amount,
                                description |-> "Task", status |-> "Active",
                                createdAt |-> s1.now, expiresAt |-> s1.now + DEFAULT_EXPIRY,
                                creatorConfirmed |-> FALSE,
                                counterpartyConfirmed |-> FALSE]),
                              !.ret = dealId])
                  IN  Emit(s2, "DealCreated")

\* createDeal that records the deal without its amount
createDealBody_RecordsNoAmount(s, sender, counterparty, amount, expiryDuration) ==
    IF ~s.agents[sender].exists THEN Fail(s, "Creator not registered")
    ELSE IF ~s.agents[counterparty].exists THEN Fail(s, "Counterparty not registered")
    ELSE IF ~(sender # counterparty) THEN Fail(s, "Cannot deal with self")
    ELSE IF ~(amount > 0) THEN Fail(s, "Amount must be positive")
    ELSE LET expiry == IF expiryDuration > 0 THEN expiryDuration ELSE DEFAULT_EXPIRY
             s1 == safeTransferFrom(s, sender, amount)
         IN  IF ~s1.ok THEN s1
             ELSE LET dealId == Len(s1.deals)
                      s2 == Wrote([s1 EXCEPT !.deals = Append(@,
                               [id |-> dealId, creator |-> sender,
                                counterparty |-> counterparty, amount |-> 0,
                                description |-> "Task", status |-> "Active",
                                createdAt |-> s1.now, expiresAt |-> s1.now + expiry,
                                creatorConfirmed |-> FALSE,
                                counterpartyConfirmed |-> FALSE]),
                              !.ret = dealId])
                  IN  Emit(s2, "DealCreated")

\* createDeal that numbers the deals from 1
createDealBody_IdFromOne(s, sender, counterparty, amount, expiryDuration) ==
    IF ~s.agents[sender].exists THEN Fail(s, "Creator not registered")
    ELSE IF ~s.agents[counterparty].exists THEN Fail(s, "Counterparty not registered")
    ELSE IF ~(sender # counterparty) THEN Fail(s, "Cannot deal with self")
    ELSE IF ~(amount > 0) THEN Fail(s, "Amount must be positive")
    ELSE LET expiry == IF expiryDuration > 0 THEN expiryDuration ELSE DEFAULT_EXPIRY
             s1 == safeTransferFrom(s, sender, amount)
         IN  IF ~s1.ok THEN s1
             ELSE LET dealId == Len(s1.deals) + 1
                      s2 == Wrote([s1 EXCEPT !.deals = Append(@,
                               [id |-> dealId, creator |-> sender,
                                counterparty |-> counterparty, amount |-> amount,
                                description |-> "Task", status |-> "Active",
                                createdAt |-> s1.now, expiresAt |-> s1.now + expiry,
                                creatorConfirmed |-> FALSE,
                                counterpartyConfirmed |-> FALSE]),
                              !.ret = dealId])
                  IN  Emit(s2, "DealCreated")

\* --------------------------------------------------------------- escrow
createDealBody(s, sender, counterparty, amount, expiryDuration) ==
    IF ~s.agents[sender].exists THEN Fail(s, "Creator not registered")
    ELSE IF ~s.agents[counterparty].exists THEN Fail(s, "Counterparty not registered")
    ELSE IF ~(sender # counterparty) THEN Fail(s, "Cannot deal with self")
    ELSE IF ~(amount > 0) THEN Fail(s, "Amount must be positive")
    ELSE LET expiry == IF expiryDuration > 0 THEN expiryDuration ELSE DEFAULT_EXPIRY
             s1 == safeTransferFrom(s, sender, amount)
         IN  IF ~s1.ok THEN s1
             ELSE LET dealId == Len(s1.deals)
                      s2 == Wrote([s1 EXCEPT !.deals = Append(@,
                               [id |-> dealId, creator |-> sender,
                                counterparty |-> counterparty, amount |-> amount,
                                description |-> "Task", status |-> "Active",
                                createdAt |-> s1.now, expiresAt |-> s1.now + expiry,
                                creatorConfirmed |-> FALSE,
                                counterpartyConfirmed |-> FALSE]),
                              !.ret = dealId])
                  IN  Emit(s2, "DealCreated")

createDeal(s, sender, counterparty, amount, expiryDuration) ==
    LET g == nonReentrantBefore(s)
    IN  IF ~g.ok THEN g
        ELSE nonReentrantAfter(createDealBody(g, sender, counterparty, amount, expiryDuration))

\* completion that credits the volume to the counterparty only
_completeDealBody_OneSided(s, dealId) ==
    LET s1 == Wrote([s EXCEPT !.deals[dealId + 1].status = "Completed"])
        deal == DealAt(s1.deals, dealId)
        s2 == safeTransfer(s1, deal.counterparty, deal.amount)
    IN  IF ~s2.ok THEN s2
        ELSE LET s3 == Wrote([s2 EXCEPT !.agents[deal.creator].dealsCompleted = @ + 1])
                 s5 == Wrote([s3 EXCEPT !.agents[deal.counterparty].dealsCompleted = @ + 1])
                 s6 == Wrote([s5 EXCEPT !.agents[deal.counterparty].totalVolume = @ + deal.amount])
             IN  Emit(s6, "DealCompleted")

_completeDealBody(s, dealId) ==
    LET s1 == Wrote([s EXCEPT !.deals[dealId + 1].status = "Completed"])
        deal == DealAt(s1.deals, dealId)
        s2 == safeTransfer(s1, deal.counterparty, deal.amount)
    IN  IF ~s2.ok THEN s2
        ELSE LET s3 == Wrote([s2 EXCEPT !.agents[deal.creator].dealsCompleted = @ + 1])
                 s4 == Wrote([s3 EXCEPT !.agents[deal.creator].totalVolume = @ + deal.amount])
                 s5 == Wrote([s4 EXCEPT !.agents[deal.counterparty].dealsCompleted = @ + 1])
                 s6 == Wrote([s5 EXCEPT !.agents[deal.counterparty].totalVolume = @ + deal.amount])
             IN  Emit(s6, "DealCompleted")

_completeDeal(s, dealId) ==
    LET g == nonReentrantBefore(s)
    IN  IF ~g.ok THEN g ELSE nonReentrantAfter(_completeDealBody(g, dealId))

\* confirmDeal that completes the deal on the first confirmation
confirmDeal_CompletesOnFirst(s, sender, dealId) ==
    IF ~(dealId < Len(s.deals)) THEN Fail(s, "Deal not found")
    ELSE IF ~(DealAt(s.deals, dealId).status = "Active") THEN Fail(s, "Deal not active")
    ELSE IF ~(sender = DealAt(s.deals, dealId).creator
              \/ sender = DealAt(s.deals, dealId).counterparty)
         THEN Fail(s, "Not a party to this deal")
    ELSE LET s1 == IF sender = DealAt(s.deals, dealId).creator
                   THEN Wrote([s EXCEPT !.deals[dealId + 1].creatorConfirmed = TRUE])
                   ELSE Wrote([s EXCEPT !.deals[dealId + 1].counterpartyConfirmed = TRUE])
         IN  IF DealAt(s1.deals, dealId).creatorConfirmed
                \/ DealAt(s1.deals, dealId).counterpartyConfirmed
             THEN _completeDeal(s1, dealId)
             ELSE s1

\* confirmDeal that refuses a deal past its expiry
confirmDeal_RejectsExpired(s, sender, dealId) ==
    IF ~(dealId < Len(s.deals)) THEN Fail(s, "Deal not found")
    ELSE IF ~(DealAt(s.deals, dealId).status = "Active") THEN Fail(s, "Deal not active")
    ELSE IF ~(sender = DealAt(s.deals, dealId).creator
              \/ sender = DealAt(s.deals, dealId).counterparty)
         THEN Fail(s, "Not a party to this deal")
    ELSE IF ~(s.now < DealAt(s.deals, dealId).expiresAt) THEN Fail(s, "Deal expired")
    ELSE LET s1 == IF sender = DealAt(s.deals, dealId).creator
                   THEN Wrote([s EXCEPT !.deals[dealId + 1].creatorConfirmed = TRUE])
                   ELSE Wrote([s EXCEPT !.deals[dealId + 1].counterpartyConfirmed = TRUE])
         IN  IF DealAt(s1.deals, dealId).creatorConfirmed
                /\ DealAt(s1.deals, dealId).counterpartyConfirmed
             THEN _completeDeal(s1, dealId)
             ELSE s1

\* confirmDeal that flips the caller's flag
confirmDeal_Toggle(s, sender, dealId) ==
    IF ~(dealId < Len(s.deals)) THEN Fail(s, "Deal not found")
    ELSE IF ~(DealAt(s.deals, dealId).status = "Active") THEN Fail(s, "Deal not active")
    ELSE IF ~(sender = DealAt(s.deals, dealId).creator
              \/ sender = DealAt(s.deals, dealId).counterparty)
         THEN Fail(s, "Not a party to this deal")
    ELSE LET s1 == IF sender = DealAt(s.deals, dealId).creator
                   THEN Wrote([s EXCEPT !.deals[dealId + 1].creatorConfirmed = ~@])
                   ELSE Wrote([s EXCEPT !.deals[dealId + 1].counterpartyConfirmed = ~@])
         IN  IF DealAt(s1.deals, dealId).creatorConfirmed
                /\ DealAt(s1.deals, dealId).counterpartyConfirmed
             THEN _completeDeal(s1, dealId)
             ELSE s1

confirmDeal(s, sender, dealId) ==
    IF ~(dealId < Len(s.deals)) THEN Fail(s, "Deal not found")
    ELSE IF ~(DealAt(s.deals, dealId).status = "Active") THEN Fail(s, "Deal not active")
    ELSE IF ~(sender = DealAt(s.deals, dealId).creator
              \/ sender = DealAt(s.deals, dealId).counterparty)
         THEN Fail(s, "Not a party to this deal")
    ELSE LET s1 == IF sender = DealAt(s.deals, dealId).creator
                   THEN Wrote([s EXCEPT !.deals[dealId + 1].creatorConfirmed = TRUE])
                   ELSE Wrote([s EXCEPT !.deals[dealId + 1].counterpartyConfirmed = TRUE])
         IN  IF DealAt(s1.deals, dealId).creatorConfirmed
                /\ DealAt(s1.deals, dealId).counterpartyConfirmed
             THEN _completeDeal(s1, dealId)
             ELSE s1

\* dispute that cancels the unstake request of the slashed agent
disputeDeal_ClearsRequest(s, sender, dealId) ==
    IF ~(dealId < Len(s.deals)) THEN Fail(s, "Deal not found")
    ELSE IF ~(DealAt(s.deals, dealId).status = "Active") THEN Fail(s, "Deal not active")
    ELSE IF ~(sender = DealAt(s.deals, dealId).creator
              \/ sender = DealAt(s.deals, dealId).counterparty)
         THEN Fail(s, "Not a party to this deal")
    ELSE LET s1 == Wrote([s EXCEPT !.deals[dealId + 1].status = "Disputed"])
             deal == DealAt(s1.deals, dealId)
             s2 == safeTransfer(s1, deal.creator, deal.amount)
         IN  IF ~s2.ok THEN s2
             ELSE LET slashTarget == IF sender = deal.creator THEN deal.counterparty
                                                              ELSE deal.creator
                      slashAmount == (s2.agents[slashTarget].staked * SLASH_PERCENT) \div 100
                      s3 == IF slashAmount > 0
                            THEN LET a == Wrote([s2 EXCEPT !.agents[slashTarget].staked =
                                                              @ - slashAmount,
                                                           !.unstakeRequestedAt[slashTarget] = 0])
                                     b == safeTransfer(a, sender, slashAmount)
                                 IN  IF ~b.ok THEN b ELSE Emit(b, "Slashed")
                            ELSE s2
                  IN  IF ~s3.ok THEN s3
                      ELSE Emit(Wrote([s3 EXCEPT !.agents[slashTarget].dealsFailed = @ + 1]),
                                "DealDisputed")

\* dispute that pays the slash to the creator of the deal
disputeDeal_SlashToCreator(s, sender, dealId) ==
    IF ~(dealId < Len(s.deals)) THEN Fail(s, "Deal not found")
    ELSE IF ~(DealAt(s.deals, dealId).status = "Active") THEN Fail(s, "Deal not active")
    ELSE IF ~(sender = DealAt(s.deals, dealId).creator
              \/ sender = DealAt(s.deals, dealId).counterparty)
         THEN Fail(s, "Not a party to this deal")
    ELSE LET s1 == Wrote([s EXCEPT !.deals[dealId + 1].status = "Disputed"])
             deal == DealAt(s1.deals, dealId)
             s2 == safeTransfer(s1, deal.creator, deal.amount)
         IN  IF ~s2.ok THEN s2
             ELSE LET slashTarget == IF sender = deal.creator THEN deal.counterparty
                                                              ELSE deal.creator
                      slashAmount == (s2.agents[slashTarget].staked * SLASH_PERCENT) \div 100
                      s3 == IF slashAmount > 0
                            THEN LET a == Wrote([s2 EXCEPT !.agents[slashTarget].staked =
                                                              @ - slashAmount])
                                     b == safeTransfer(a, deal.creator, slashAmount)
                                 IN  IF ~b.ok THEN b ELSE Emit(b, "Slashed")
                            ELSE s2
                  IN  IF ~s3.ok THEN s3
                      ELSE Emit(Wrote([s3 EXCEPT !.agents[slashTarget].dealsFailed = @ + 1]),
                                "DealDisputed")

\* dispute that is refused to a party that has confirmed the deal
disputeDeal_NotAfterConfirm(s, sender, dealId) ==
    IF ~(dealId < Len(s.deals)) THEN Fail(s, "Deal not found")
    ELSE IF ~(DealAt(s.deals, dealId).status = "Active") THEN Fail(s, "Deal not active")
    ELSE IF ~(sender = DealAt(s.deals, dealId).creator
              \/ sender = DealAt(s.deals, dealId).counterparty)
         THEN Fail(s, "Not a party to this deal")
    ELSE IF (sender = DealAt(s.deals, dealId).creator
                /\ DealAt(s.deals, dealId).creatorConfirmed)
            \/ (sender = DealAt(s.deals, dealId).counterparty
                /\ DealAt(s.deals, dealId).counterpartyConfirmed)
         THEN Fail(s, "Already confirmed")
    ELSE LET s1 == Wrote([s EXCEPT !.deals[dealId + 1].status = "Disputed"])
             deal == DealAt(s1.deals, dealId)
             s2 == safeTransfer(s1, deal.creator, deal.amount)
         IN  IF ~s2.ok THEN s2
             ELSE LET slashTarget == IF sender = deal.creator THEN deal.counterparty
                                                              ELSE deal.creator
                      slashAmount == (s2.agents[slashTarget].staked * SLASH_PERCENT) \div 100
                      s3 == IF slashAmount > 0
                            THEN LET a == Wrote([s2 EXCEPT !.agents[slashTarget].staked =
                                                              @ - slashAmount])
                                     b == safeTransfer(a, sender, slashAmount)
                                 IN  IF ~b.ok THEN b ELSE Emit(b, "Slashed")
                            ELSE s2
                  IN  IF ~s3.ok THEN s3
                      ELSE Emit(Wrote([s3 EXCEPT !.agents[slashTarget].dealsFailed = @ + 1]),
                                "DealDisputed")

\* dispute that refunds the escrow to the disputer
disputeDeal_RefundsDisputer(s, sender, dealId) ==
    IF ~(dealId < Len(s.deals)) THEN Fail(s, "Deal not found")
    ELSE IF ~(DealAt(s.deals, dealId).status = "Active") THEN Fail(s, "Deal not active")
    ELSE IF ~(sender = DealAt(s.deals, dealId).creator
              \/ sender = DealAt(s.deals, dealId).counterparty)
         THEN Fail(s, "Not a party to this deal")
    ELSE LET s1 == Wrote([s EXCEPT !.deals[dealId + 1].status = "Disputed"])
             deal == DealAt(s1.deals, dealId)
             s2 == safeTransfer(s1, sender, deal.amount)
         IN  IF ~s2.ok THEN s2
             ELSE LET slashTarget == IF sender = deal.creator THEN deal.counterparty
                                                              ELSE deal.creator
                      slashAmount == (s2.agents[slashTarget].staked * SLASH_PERCENT) \div 100
                      s3 == IF slashAmount > 0
                            THEN LET a == Wrote([s2 EXCEPT !.agents[slashTarget].staked =
                                                              @ - slashAmount])
                                     b == safeTransfer(a, sender, slashAmount)
                                 IN  IF ~b.ok THEN b ELSE Emit(b, "Slashed")
                            ELSE s2
                  IN  IF ~s3.ok THEN s3
                      ELSE Emit(Wrote([s3 EXCEPT !.agents[slashTarget].dealsFailed = @ + 1]),
                                "DealDisputed")

\* dispute that records the failure only when something was slashed
disputeDeal_FailureOnlyWithSlash(s, sender, dealId) ==
    IF ~(dealId < Len(s.deals)) THEN Fail(s, "Deal not found")
    ELSE IF ~(DealAt(s.deals, dealId).status = "Active") THEN Fail(s, "Deal not active")
    ELSE IF ~(sender = DealAt(s.deals, dealId).creator
              \/ sender = DealAt(s.deals, dealId).counterparty)
         THEN Fail(s, "Not a party to this deal")
    ELSE LET s1 == Wrote([s EXCEPT !.deals[dealId + 1].status = "Disputed"])
             deal == DealAt(s1.deals, dealId)
             s2 == safeTransfer(s1, deal.creator, deal.amount)
         IN  IF ~s2.ok THEN s2
             ELSE LET slashTarget == IF sender = deal.creator THEN deal.counterparty
                                                              ELSE deal.creator
                      slashAmount == (s2.agents[slashTarget].staked * SLASH_PERCENT) \div 100
                      s3 == IF slashAmount > 0
                            THEN LET a == Wrote([s2 EXCEPT !.agents[slashTarget].staked =
                                                              @ - slashAmount])
                                     b == safeTransfer(a, sender, slashAmount)
                                 IN  IF ~b.ok THEN b
                                     ELSE Wrote([Emit(b, "Slashed") EXCEPT
                                                   !.agents[slashTarget].dealsFailed = @ + 1])
                            ELSE s2
                  IN  IF ~s3.ok THEN s3 ELSE Emit(s3, "DealDisputed")

\* dispute that always slashes the counterparty
disputeDeal_SlashCounterparty(s, sender, dealId) ==
    IF ~(dealId < Len(s.deals)) THEN Fail(s, "Deal not found")
    ELSE IF ~(DealAt(s.deals, dealId).status = "Active") THEN Fail(s, "Deal not active")
    ELSE IF ~(sender = DealAt(s.deals, dealId).creator
              \/ sender = DealAt(s.deals, dealId).counterparty)
         THEN Fail(s, "Not a party to this deal")
    ELSE LET s1 == Wrote([s EXCEPT !.deals[dealId + 1].status = "Disputed"])
             deal == DealAt(s1.deals, dealId)
             s2 == safeTransfer(s1, deal.creator, deal.amount)
         IN  IF ~s2.ok THEN s2
             ELSE LET slashTarget == deal.counterparty
                      slashAmount == (s2.agents[slashTarget].staked * SLASH_PERCENT) \div 100
                      s3 == IF slashAmount > 0
                            THEN LET a == Wrote([s2 EXCEPT !.agents[slashTarget].staked =
                                                              @ - slashAmount])
                                     b == safeTransfer(a, sender, slashAmount)
                                 IN  IF ~b.ok THEN b ELSE Emit(b, "Slashed")
                            ELSE s2
                  IN  IF ~s3.ok THEN s3
                      ELSE Emit(Wrote([s3 EXCEPT !.agents[slashTarget].dealsFailed = @ + 1]),
                                "DealDisputed")

disputeDeal(s, sender, dealId) ==
    IF ~(dealId < Len(s.deals)) THEN Fail(s, "Deal not found")
    ELSE IF ~(DealAt(s.deals, dealId).status = "Active") THEN Fail(s, "Deal not active")
    ELSE IF ~(sender = DealAt(s.deals, dealId).creator
              \/ sender = DealAt(s.deals, dealId).counterparty)
         THEN Fail(s, "Not a party to this deal")
    ELSE LET s1 == Wrote([s EXCEPT !.deals[dealId + 1].status = "Disputed"])
             deal == DealAt(s1.deals, dealId)
             s2 == safeTransfer(s1, deal.creator, deal.amount)
         IN  IF ~s2.ok THEN s2
             ELSE LET slashTarget == IF sender = deal.creator THEN deal.counterparty
                                                              ELSE deal.creator
                      slashAmount == (s2.agents[slashTarget].staked * SLASH_PERCENT) \div 100
                      s3 == IF slashAmount > 0
                            THEN LET a == Wrote([s2 EXCEPT !.agents[slashTarget].staked =
                                                              @ - slashAmount])
                                     b == safeTransfer(a, sender, slashAmount)
                                 IN  IF ~b.ok THEN b ELSE Emit(b, "Slashed")
                            ELSE s2
                  IN  IF ~s3.ok THEN s3
                      ELSE Emit(Wrote([s3 EXCEPT !.agents[slashTarget].dealsFailed = @ + 1]),
                                "DealDisputed")

\* cancelExpiredDeal that refuses a deal a party has confirmed
cancelExpiredDeal_UnconfirmedOnly(s, sender, dealId) ==
    IF ~(dealId < Len(s.deals)) THEN Fail(s, "Deal not found")
    ELSE IF ~(DealAt(s.deals, dealId).status = "Active") THEN Fail(s, "Deal not active")
    ELSE IF ~(s.now >= DealAt(s.deals, dealId).expiresAt) THEN Fail(s, "Deal not expired")
    ELSE IF DealAt(s.deals, dealId).creatorConfirmed
            \/ DealAt(s.deals, dealId).counterpartyConfirmed
         THEN Fail(s, "Deal confirmed")
    ELSE LET s1 == Wrote([s EXCEPT !.deals[dealId + 1].status = "Expired"])
             deal == DealAt(s1.deals, dealId)
             s2 == safeTransfer(s1, deal.creator, deal.amount)
         IN  IF ~s2.ok THEN s2 ELSE Emit(s2, "DealExpired")

\* cancelExpiredDeal that marks every expired Active deal Expired
cancelExpiredDeal_SweepsAll(s, sender, dealId) ==
    IF ~(dealId < Len(s.deals)) THEN Fail(s, "Deal not found")
    ELSE IF ~(DealAt(s.deals, dealId).status = "Active") THEN Fail(s, "Deal not active")
    ELSE IF ~(s.now >= DealAt(s.deals, dealId).expiresAt) THEN Fail(s, "Deal not expired")
    ELSE LET s1 == Wrote([s EXCEPT !.deals =
                            [i \in 1..Len(s.deals) |->
                                IF s.deals[i].status = "Active" /\ s.now >= s.deals[i].expiresAt
                                THEN [s.deals[i] EXCEPT !.status = "Expired"]
                                ELSE s.deals[i]]])
             deal == DealAt(s1.deals, dealId)
             s2 == safeTransfer(s1, deal.creator, deal.amount)
         IN  IF ~s2.ok THEN s2 ELSE Emit(s2, "DealExpired")

\* cancelExpiredDeal that sets the status Cancelled
cancelExpiredDeal_SetsCancelled(s, sender, dealId) ==
    IF ~(dealId < Len(s.deals)) THEN Fail(s, "Deal not found")
    ELSE IF ~(DealAt(s.deals, dealId).status = "Active") THEN Fail(s, "Deal not active")
    ELSE IF ~(s.now >= DealAt(s.deals, dealId).expiresAt) THEN Fail(s, "Deal not expired")
    ELSE LET s1 == Wrote([s EXCEPT !.deals[dealId + 1].status = "Cancelled"])
             deal == DealAt(s1.deals, dealId)
             s2 == safeTransfer(s1, deal.creator, deal.amount)
         IN  IF ~s2.ok THEN s2 ELSE Emit(s2, "DealExpired")

\* cancelExpiredDeal that counts the expiry as a failure of the counterparty
cancelExpiredDeal_CountsFailure(s, sender, dealId) ==
    IF ~(dealId < Len(s.deals)) THEN Fail(s, "Deal not found")
    ELSE IF ~(DealAt(s.deals, dealId).status = "Active") THEN Fail(s, "Deal not active")
    ELSE IF ~(s.now >= DealAt(s.deals, dealId).expiresAt) THEN Fail(s, "Deal not expired")
    ELSE LET s1 == Wrote([s EXCEPT !.deals[dealId + 1].status = "Expired"])
             deal == DealAt(s1.deals, dealId)
             s2 == safeTransfer(s1, deal.creator, deal.amount)
         IN  IF ~s2.ok THEN s2
             ELSE Emit(Wrote([s2 EXCEPT !.agents[deal.counterparty].dealsFailed = @ + 1]),
                       "DealExpired")

\* cancelExpiredDeal open to the parties of the deal only
cancelExpiredDeal_PartiesOnly(s, sender, dealId) ==
    IF ~(dealId < Len(s.deals)) THEN Fail(s, "Deal not found")
    ELSE IF ~(DealAt(s.deals, dealId).status = "Active") THEN Fail(s, "Deal not active")
    ELSE IF ~(sender = DealAt(s.deals, dealId).creator
              \/ sender = DealAt(s.deals, dealId).counterparty)
         THEN Fail(s, "Not a party to this deal")
    ELSE IF ~(s.now >= DealAt(s.deals, dealId).expiresAt) THEN Fail(s, "Deal not expired")
    ELSE LET s1 == Wrote([s EXCEPT !.deals[dealId + 1].status = "Expired"])
             deal == DealAt(s1.deals, dealId)
             s2 == safeTransfer(s1, deal.creator, deal.amount)
         IN  IF ~s2.ok THEN s2 ELSE Emit(s2, "DealExpired")

\* cancelExpiredDeal without the status check
cancelExpiredDeal_NoStatusCheck(s, sender, dealId) ==
    IF ~(dealId < Len(s.deals)) THEN Fail(s, "Deal not found")
    ELSE IF ~(s.now >= DealAt(s.deals, dealId).expiresAt) THEN Fail(s, "Deal not expired")
    ELSE LET s1 == Wrote([s EXCEPT !.deals[dealId + 1].status = "Expired"])
             deal == DealAt(s1.deals, dealId)
             s2 == safeTransfer(s1, deal.creator, deal.amount)
         IN  IF ~s2.ok THEN s2 ELSE Emit(s2, "DealExpired")

cancelExpiredDeal(s, sender, dealId) ==
    IF ~(dealId < Len(s.deals)) THEN Fail(s, "Deal not found")
    ELSE IF ~(DealAt(s.deals, dealId).status = "Active") THEN Fail(s, "Deal not active")
    ELSE IF ~(s.now >= DealAt(s.deals, dealId).expiresAt) THEN Fail(s, "Deal not expired")
    ELSE LET s1 == Wrote([s EXCEPT !.deals[dealId + 1].status = "Expired"])
             deal == DealAt(s1.deals, dealId)
             s2 == safeTransfer(s1, deal.creator, deal.amount)
         IN  IF ~s2.ok THEN s2 ELSE Emit(s2, "DealExpired")

\* the completion component counts the failed deals
getReputation_CountsFailures(ags, agent) ==
    LET a == ags[agent]
        totalDeals == a.dealsCompleted + a.dealsFailed
    IN  IF ~a.exists THEN 0
        ELSE IF totalDeals = 0 THEN _min((a.staked \div 1000000) * 10, 200)
        ELSE LET completionScore == (a.dealsFailed * 500) \div totalDeals
                 volumeScore == _min((a.totalVolume \div 100000000) * 30, 300)
                 stakeScore == _min((a.staked \div 1000000) * 10, 200)
             IN  completionScore + volumeScore + stakeScore

\* the score of an agent with deals leaves out the stake component
getReputation_NoStakeScore(ags, agent) ==
    LET a == ags[agent]
        totalDeals == a.dealsCompleted + a.dealsFailed
    IN  IF ~a.exists THEN 0
        ELSE IF totalDeals = 0 THEN _min((a.staked \div 1000000) * 10, 200)
        ELSE LET completionScore == (a.dealsCompleted * 500) \div totalDeals
                 volumeScore == _min((a.totalVolume \div 100000000) * 30, 300)
             IN  completionScore + volumeScore

\* ------------------------------------------------------- view functions
getReputation(ags, agent) ==
    LET a == ags[agent]
        totalDeals == a.dealsCompleted + a.dealsFailed
    IN  IF ~a.exists THEN 0
        ELSE IF totalDeals = 0 THEN _min((a.staked \div 1000000) * 10, 200)
        ELSE LET completionScore == (a.dealsCompleted * 500) \div totalDeals
                 volumeScore == _min((a.totalVolume \div 100000000) * 30, 300)
                 stakeScore == _min((a.staked \div 1000000) * 10, 200)
             IN  completionScore + volumeScore + stakeScore

getAgentCount == Len(agentList)

getDealCount == Len(deals)

\* ---------------------------------------------------- external call ABI
Dispatch(s, sender, c) ==
    CASE c.op = "registerAgent" -> registerAgent(s, sender, c.name)
      [] c.op = "stake" -> stake(s, sender, c.amt)
      [] c.op = "requestUnstake" -> requestUnstake(s, sender)
      [] c.op = "unstake" -> unstake(s, sender, c.amt)
      [] c.op = "createDeal" -> createDeal(s, sender, c.cp, c.amt, c.dur)
      [] c.op = "confirmDeal" -> confirmDeal(s, sender, c.id)
      [] c.op = "disputeDeal" -> disputeDeal(s, sender, c.id)
      [] c.op = "cancelExpiredDeal" -> cancelExpiredDeal(s, sender, c.id)
      [] OTHER -> s

\* --------------------------------------------------------- transactions
\* a transaction that reverts leaves storage and balances as before the call
Committed(pre, r) == IF r.ok THEN r ELSE pre

WithinBounds(s) ==
    /\ Len(s.deals) <= MaxDeals
    /\ \A a \in Addr : s.agents[a].staked <= MaxStakeUnits * MIN_STAKE

Call(op, cp, amt, id, name, dur) ==
    [op |-> op, cp |-> cp, amt |-> amt, id |-> id, name |-> name, dur |-> dur, at |-> 0]

Transact(sender, c) ==
    LET pre == Start(NoCall)
        r == Dispatch(pre, sender, c)
        fin == Committed(pre, r)
    IN  /\ WithinBounds(fin)
        /\ agents' = fin.agents
        /\ agentList' = fin.agentList
        /\ deals' = fin.deals
        /\ unstakeRequestedAt' = fin.unstakeRequestedAt
        /\ bal' = fin.bal
        /\ steps' = IF r.ok THEN steps + 1 ELSE steps
        /\ UNCHANGED <<now, ticks>>

RegisterAgent ==
    \E sender \in Addr, name \in Names :
        /\ steps < MaxSteps
        /\ Transact(sender, Call("registerAgent", "a1", 0, 0, name, 0))

Stake ==
    \E sender \in Stakers, amount \in StakeAmounts :
        /\ steps < MaxSteps
        /\ Transact(sender, Call("stake", "a1", amount, 0, <<>>, 0))

RequestUnstake ==
    \E sender \in Addr :
        /\ steps < MaxSteps
        /\ Transact(sender, Call("requestUnstake", "a1", 0, 0, <<>>, 0))

UnstakeAmounts(sender) ==
    {agents[sender].staked, agents[sender].staked + 1, 15 * MIN_STAKE}

Unstake ==
    \E sender \in Addr :
        \E amount \in UnstakeAmounts(sender) :
            /\ steps < MaxSteps
            /\ Transact(sender, Call("unstake", "a1", amount, 0, <<>>, 0))

CreateDeal ==
    \E sender \in Creators, amount \in DealAmounts, dur \in ExpiryDurations :
        \E cp \in Counterparties \cup {sender} :
            /\ steps < MaxSteps
            /\ Transact(sender, Call("createDeal", cp, amount, 0, <<>>, dur))

ConfirmDeal ==
    \E sender \in Addr, id \in DealIds :
        /\ steps < MaxSteps
        /\ Transact(sender, Call("confirmDeal", "a1", 0, id, <<>>, 0))

DisputeDeal ==
    \E sender \in Addr, id \in DealIds :
        /\ steps < MaxSteps
        /\ Transact(sender, Call("disputeDeal", "a1", 0, id, <<>>, 0))

CancelExpiredDeal ==
    \E sender \in Addr, id \in DealIds :
        /\ steps < MaxSteps
        /\ Transact(sender, Call("cancelExpiredDeal", "a1", 0, id, <<>>, 0))

\* block.timestamp moves on between transactions
Tick ==
    /\ ticks < MaxTicks
    /\ steps < MaxSteps
    /\ \E d \in TickSteps : now' = now + d
    /\ ticks' = ticks + 1
    /\ steps' = steps + 1
    /\ UNCHANGED <<agents, agentList, deals, unstakeRequestedAt, bal>>

Init ==
    /\ agents = [a \in Addr |-> NoAgent]
    /\ agentList = <<>>
    /\ deals = <<>>
    /\ unstakeRequestedAt = [a \in Addr |-> 0]
    /\ bal = [a \in Addr \cup {Vault} |-> IF a = Vault THEN 0 ELSE InitBal[a]]
    /\ now = StartTime
    /\ ticks = 0
    /\ steps = 0

Next ==
    \/ RegisterAgent
    \/ Stake
    \/ RequestUnstake
    \/ Unstake
    \/ CreateDeal
    \/ ConfirmDeal
    \/ DisputeDeal
    \/ CancelExpiredDeal
    \/ Tick

Spec == Init /\ [][Next]_vars

\* ------------------------------------------------------------ properties
\* the execution of a call from the current state, before commit or revert
Try(sender, c) == Dispatch(Start(NoCall), sender, c)

\* the state a call leaves
After(sender, c) == Committed(Start(NoCall), Try(sender, c))

DealCall(op, id) == Call(op, "a1", 0, id, <<>>, 0)

RECURSIVE SumStaked(_, _)
SumStaked(ags, S) ==
    IF S = {} THEN 0
    ELSE LET a == CHOOSE x \in S : TRUE
         IN  ags[a].staked + SumStaked(ags, S \ {a})

RECURSIVE SumActive(_, _)
SumActive(ds, n) ==
    IF n = 0 THEN 0
    ELSE (IF ds[n].status = "Active" THEN ds[n].amount ELSE 0) + SumActive(ds, n - 1)

\* C1: the token balance held by the contract equals the sum of all agents'
\* staked balances plus the sum of the amounts of all Active deals.
C1_Conservation ==
    bal[Vault] = SumStaked(agents, Addr) + SumActive(deals, Len(deals))

\* stake and escrow are both held, and a dispute has already paid out
C1_Witness ==
    /\ SumStaked(agents, Addr) > 0
    /\ SumActive(deals, Len(deals)) > 0
    /\ \E i \in 1..Len(deals) : deals[i].status = "Disputed"
    /\ \E a \in Addr : agents[a].dealsFailed > 0 /\ agents[a].staked > 0

C2_TerminalRejected ==
    \A id \in DealIds :
        (id < Len(deals) /\ DealAt(deals, id).status # "Active") =>
            \A sender \in Addr, op \in {"confirmDeal", "disputeDeal", "cancelExpiredDeal"} :
                /\ ~Try(sender, DealCall(op, id)).ok
                /\ Try(sender, DealCall(op, id)).err = "Deal not active"

C2_StatusFrozen ==
    \A i \in 1..Len(deals) :
        deals[i].status # "Active" =>
            /\ i <= Len(deals')
            /\ deals'[i].status = deals[i].status

\* C2: once a deal's status is not Active no step changes it, and confirmDeal,
\* disputeDeal and cancelExpiredDeal on it fail with "Deal not active" for
\* every caller.
C2_MonotoneLifecycle == [](C2_TerminalRejected) /\ [][C2_StatusFrozen]_vars

\* a deal has expired and been cancelled, and transactions can still be sent
C2_Witness ==
    /\ \E i \in 1..Len(deals) : deals[i].status = "Expired"
    /\ steps < MaxSteps

\* C3: a confirmDeal that leaves both flags true completes the deal in the same
\* call, pays the whole escrow to the counterparty and to nobody else, and adds
\* 1 to dealsCompleted and the amount to totalVolume of both parties; a
\* confirmDeal that leaves one flag false keeps the deal Active, moves no
\* funds and changes no agent.
C3_ConfirmDeal ==
    \A sender \in Addr, id \in DealIds :
        LET r == Try(sender, DealCall("confirmDeal", id))
        IN  r.ok =>
            LET d == DealAt(deals, id)
                d2 == DealAt(r.deals, id)
            IN  IF d2.creatorConfirmed /\ d2.counterpartyConfirmed
                THEN /\ d2.status = "Completed"
                     /\ r.bal = [bal EXCEPT ![Vault] = @ - d.amount,
                                            ![d.counterparty] = @ + d.amount]
                     /\ \A a \in Addr :
                          r.agents[a] =
                            IF a \in {d.creator, d.counterparty}
                            THEN [agents[a] EXCEPT !.dealsCompleted = @ + 1,
                                                   !.totalVolume = @ + d.amount]
                            ELSE agents[a]
                ELSE /\ d2.status = "Active"
                     /\ r.bal = bal
                     /\ r.agents = agents

\* a deal was completed by the second confirmation and paid to the counterparty
C3_Witness ==
    \E i \in 1..Len(deals) :
        /\ deals[i].status = "Completed"
        /\ deals[i].creatorConfirmed /\ deals[i].counterpartyConfirmed
        /\ agents[deals[i].creator].dealsCompleted = 1
        /\ agents[deals[i].creator].totalVolume = deals[i].amount
        /\ agents[deals[i].counterparty].totalVolume = deals[i].amount
        /\ bal[deals[i].counterparty] = InitBal[deals[i].counterparty] + deals[i].amount
        /\ bal[deals[i].creator] = InitBal[deals[i].creator] - deals[i].amount

\* C4: a successful disputeDeal sets the status to Disputed, returns the whole
\* escrow to the creator, takes floor(staked / 10) from the stake of the party
\* that did not dispute, pays exactly that to the disputer, and adds 1 to the
\* dealsFailed of the party that did not dispute and to nobody else's.
C4_DisputeDeal ==
    \A sender \in Addr, id \in DealIds :
        LET r == Try(sender, DealCall("disputeDeal", id))
        IN  r.ok =>
            LET d == DealAt(deals, id)
                other == IF sender = d.creator THEN d.counterparty ELSE d.creator
                slashed == agents[other].staked \div 10
                b1 == [bal EXCEPT ![Vault] = @ - d.amount - slashed]
                b2 == [b1 EXCEPT ![d.creator] = @ + d.amount]
                b3 == [b2 EXCEPT ![sender] = @ + slashed]
            IN  /\ sender \in {d.creator, d.counterparty}
                /\ d.status = "Active"
                /\ r.deals = [deals EXCEPT ![id + 1].status = "Disputed"]
                /\ r.bal = b3
                /\ r.agents = [agents EXCEPT ![other].staked = @ - slashed,
                                             ![other].dealsFailed = @ + 1]

\* the counterparty disputed: the creator's stake was slashed by a rounded-down
\* tenth and the creator was charged the failure
C4_Witness ==
    \E i \in 1..Len(deals) :
        /\ deals[i].status = "Disputed"
        /\ agents[deals[i].creator].dealsFailed = 1
        /\ agents[deals[i].creator].staked = (25 * MIN_STAKE + 5) - 2500000
        /\ bal[deals[i].counterparty] = InitBal[deals[i].counterparty] + 2500000

\* every call that a caller can make in the current state, with arguments
\* inside and outside the accepted ranges
AllCalls(sender) ==
    {Call("registerAgent", "a1", 0, 0, n, 0) : n \in Names}
    \cup {Call("stake", "a1", x, 0, <<>>, 0) : x \in StakeAmounts}
    \cup {Call("requestUnstake", "a1", 0, 0, <<>>, 0)}
    \cup {Call("unstake", "a1", x, 0, <<>>, 0) : x \in UnstakeAmounts(sender)}
    \cup {Call("createDeal", cp, x, 0, <<>>, d) :
            cp \in Addr, x \in DealAmounts, d \in {0, UNSTAKE_COOLDOWN}}
    \cup {DealCall(op, id) : op \in {"confirmDeal", "disputeDeal", "cancelExpiredDeal"},
                             id \in 0..MaxDeals}

\* contract storage and token balances
Engine(s) == <<s.agents, s.agentList, s.deals, s.unstakeRequestedAt, s.bal>>

\* the preconditions of the operations, as the specification lists them
PreconditionFails(sender, c) ==
    LET a == agents[sender]
        known == c.id < Len(deals)
        d == DealAt(deals, c.id)
    IN  CASE c.op = "registerAgent" -> a.exists \/ Len(c.name) = 0 \/ Len(c.name) > 32
          [] c.op = "stake" -> ~a.exists \/ c.amt < MIN_STAKE
          [] c.op = "requestUnstake" -> ~a.exists \/ a.staked = 0
          [] c.op = "unstake" ->
                \/ ~a.exists
                \/ c.amt > a.staked
                \/ unstakeRequestedAt[sender] = 0
                \/ now < unstakeRequestedAt[sender] + 86400
          [] c.op = "createDeal" ->
                ~a.exists \/ ~agents[c.cp].exists \/ sender = c.cp \/ c.amt <= 0
          [] c.op \in {"confirmDeal", "disputeDeal"} ->
                \/ ~known
                \/ d.status # "Active"
                \/ sender \notin {d.creator, d.counterparty}
          [] c.op = "cancelExpiredDeal" ->
                ~known \/ d.status # "Active" \/ now < d.expiresAt

\* C5: a call of register, stake, requestUnstake, unstake, createDeal,
\* confirmDeal, disputeDeal or cancelExpiredDeal one of whose preconditions
\* fails, or that is rejected for any reason, leaves agents, the enumeration
\* list, deals, unstake requests and all token balances as they were.
C5_RejectedUnchanged ==
    \A sender \in Addr :
        \A c \in AllCalls(sender) :
            (PreconditionFails(sender, c) \/ ~Try(sender, c).ok) =>
                Engine(After(sender, c)) = Engine(Start(NoCall))

\* a state with stake, a pending request whose cooldown has not elapsed and an
\* Active deal that has not expired: calls are rejected for state-dependent
\* reasons as well as for bad arguments
C5_Witness ==
    /\ \E a \in Addr :
         Try(a, Call("unstake", "a1", agents[a].staked, 0, <<>>, 0)).err = "Cooldown not elapsed"
    /\ \E a \in Addr : Try(a, DealCall("cancelExpiredDeal", 0)).err = "Deal not expired"
    /\ \E a \in Addr : Try(a, DealCall("confirmDeal", 0)).err = "Not a party to this deal"
    /\ \E a \in Addr : Try(a, Call("stake", "a1", MIN_STAKE - 1, 0, <<>>, 0)).err = "Below minimum stake"

NoWriteAfterTransfer(tr) ==
    \A i \in 1..Len(tr), j \in 1..Len(tr) :
        ~(i < j /\ tr[i] = "transfer" /\ tr[j] = "write")

\* C6: in every successful operation all storage writes of the operation come
\* before its first token transfer.
C6_BookkeepingBeforeTransfer ==
    \A sender \in Addr :
        \A c \in AllCalls(sender) :
            Try(sender, c).ok => NoWriteAfterTransfer(Try(sender, c).trace)

\* what the notified party of a transfer may call from the token's hook,
\* during the first or the second transfer of the transaction
HookCalls ==
    {[c EXCEPT !.at = k] : k \in {1, 2}, c \in UNION {AllCalls(a) : a \in Addr}}

\* C7: a call made into the contract while a transfer of an operation is in
\* flight is rejected, or the storage on its return (what it saw, with its
\* own effects) is the storage the outer operation ends with: the outer
\* operation writes nothing after the transfer.
C7_NoHalfUpdatedReentrancy ==
    \A sender \in Addr :
        \A c \in AllCalls(sender), cb \in HookCalls :
            LET r == Dispatch(Start(cb), sender, c)
            IN  (r.ok /\ r.cbRan) => r.cbBook = Book(r)

EventSet ==
    {"AgentRegistered", "Staked", "UnstakeRequested", "Unstaked", "DealCreated",
     "DealCompleted", "DealDisputed", "DealExpired", "Slashed"}

\* C9: every successful mutating operation emits exactly one event, and it is
\* one of AgentRegistered, Staked, UnstakeRequested, Unstaked, DealCreated,
\* DealCompleted, DealDisputed, DealExpired, Slashed.
C9_ExactlyOneEvent ==
    \A sender \in Addr :
        \A c \in AllCalls(sender) :
            Try(sender, c).ok =>
                /\ Len(Try(sender, c).events) = 1
                /\ Try(sender, c).events[1] \in EventSet

\* C10: getReputation is an integer from 0 to 1000 for every identity, and 0
\* for every identity that is not registered.
C10_ScoreBounds ==
    \A a \in Addr :
        /\ getReputation(agents, a) \in 0..1000
        /\ ~agents[a].exists => getReputation(agents, a) = 0

\* one agent has reached the largest score, with the stake component capped,
\* another has a score strictly between the bounds, a third is unregistered
C10_Witness ==
    /\ \E a \in Addr :
         /\ getReputation(agents, a) = 1000
         /\ (agents[a].staked \div 1000000) * 10 > 200
    /\ \E a \in Addr : getReputation(agents, a) \in 1..999
    /\ \E a \in Addr : ~agents[a].exists

\* the execution record of the next transaction after r
Resume(r) ==
    [r EXCEPT !.events = <<>>, !.trace = <<>>, !.nxfer = 0, !.cbRan = FALSE,
              !.cbBook = <<>>, !.ok = TRUE, !.err = "", !.ret = 0]

Run(s, x) == Committed(s, Dispatch(s, x.sender, x.call))

\* transaction x, then transaction y, from the current state
Then(x, y) == Run(Resume(Run(Start(NoCall), x)), y)

DealOpsOn(id) ==
    {[sender |-> a, call |-> DealCall(op, id)] :
        a \in Addr, op \in {"confirmDeal", "disputeDeal", "cancelExpiredDeal"}}

OtherParty(x) ==
    LET d == DealAt(deals, x.call.id)
    IN  IF x.sender = d.creator THEN d.counterparty ELSE d.creator

\* two disputes by different callers that slash the same agent, whose stake
\* is large enough for 10% of it to be nonzero
SlashSameAgent(x, y) ==
    /\ x.call.op = "disputeDeal"
    /\ y.call.op = "disputeDeal"
    /\ x.sender # y.sender
    /\ OtherParty(x) = OtherParty(y)
    /\ agents[OtherParty(x)].staked * SLASH_PERCENT >= 100

\* C8 as claimed: two enabled operations (confirmDeal, disputeDeal,
\* cancelExpiredDeal) on different deal ids leave the same agents, deals,
\* unstake requests and balances in either order.
C8_AnyOrder ==
    \A i \in DealIds, j \in DealIds :
        i # j =>
            \A x \in DealOpsOn(i), y \in DealOpsOn(j) :
                (Try(x.sender, x.call).ok /\ Try(y.sender, y.call).ok) =>
                    Engine(Then(x, y)) = Engine(Then(y, x))

C8_PairsCommute ==
    \A i \in DealIds, j \in DealIds :
        i # j =>
            \A x \in DealOpsOn(i), y \in DealOpsOn(j) :
                (Try(x.sender, x.call).ok /\ Try(y.sender, y.call).ok
                 /\ ~SlashSameAgent(x, y)) =>
                    Engine(Then(x, y)) = Engine(Then(y, x))

\* C8: two enabled operations (confirmDeal, disputeDeal, cancelExpiredDeal) on
\* different deal ids leave the same agents, deals, unstake requests and
\* balances in either order, unless they are two disputeDeal calls by
\* different callers that slash the same agent and that agent's stake is at
\* least 10 base units.
C8_AnyOrderUnlessSameSlash == []C8_PairsCommute

\* two Active deals with a staked party in both: a dispute of one (which
\* slashes) and a confirmation, a dispute or a cancellation of the other are
\* enabled together
C8_Witness ==
    /\ Len(deals) = 2
    /\ deals[1].status = "Active" /\ deals[2].status = "Active"
    /\ \E a \in Addr :
         /\ agents[a].staked > 0
         /\ a \in {deals[1].creator, deals[1].counterparty}
         /\ a \in {deals[2].creator, deals[2].counterparty}
    /\ \E x \in DealOpsOn(0), y \in DealOpsOn(1) :
         /\ x.call.op = "disputeDeal" /\ y.call.op = "disputeDeal"
         /\ Try(x.sender, x.call).ok /\ Try(y.sender, y.call).ok
         /\ ~SlashSameAgent(x, y)
         /\ Len(Try(x.sender, x.call).events) = 2

\* ------------------------------------------------------------- C11 .. C20
\* the smaller of x and the cap
Capped(x, cap) == IF x > cap THEN cap ELSE x

\* the score of the agent record a by the reference formula, amounts in
\* units of 1 USDC = 10^6 base units
ReferenceScore(a) ==
    LET unit == 1000000
        totalDeals == a.dealsCompleted + a.dealsFailed
    IN  IF totalDeals = 0 THEN Capped((a.staked \div unit) * 10, 200)
        ELSE ((a.dealsCompleted * 500) \div totalDeals)
             + Capped((a.totalVolume \div (100 * unit)) * 30, 300)
             + Capped((a.staked \div unit) * 10, 200)

\* a registered agent with the given stake, counters and volume
AgentWith(staked, completed, failed, volume) ==
    [a \in Addr |->
        [name |-> AliceName, staked |-> staked, dealsCompleted |-> completed,
         dealsFailed |-> failed, totalVolume |-> volume, registeredAt |-> StartTime,
         exists |-> TRUE]]

\* C11: getReputation of every registered agent equals the reference formula;
\* an agent with 10 units staked and no deals scores 100, and an agent with
\* 10 units staked, one completed 50-unit deal and no failures scores 600.
C11_ReputationFormula ==
    /\ \A a \in Addr :
         agents[a].exists => getReputation(agents, a) = ReferenceScore(agents[a])
    /\ getReputation(AgentWith(10 * 1000000, 0, 0, 0), "a1") = 100
    /\ getReputation(AgentWith(10 * 1000000, 1, 0, 50 * 1000000), "a1") = 600

\* a staked agent whose only deal failed scores its capped stake component
\* alone, next to a registered agent with no deals and no stake
C11_Witness ==
    /\ \E a \in Addr :
         /\ agents[a].dealsFailed = 1 /\ agents[a].dealsCompleted = 0
         /\ agents[a].staked > 20 * 1000000
         /\ getReputation(agents, a) = 200
    /\ \E a \in Addr :
         /\ agents[a].exists /\ agents[a].staked = 0
         /\ agents[a].dealsFailed + agents[a].dealsCompleted = 0
         /\ getReputation(agents, a) = 0

\* C12: unstake succeeds exactly when the caller is registered, the amount is
\* at most its staked balance, an unstake request is pending and a day has
\* passed since the request; otherwise it fails with the first failing
\* condition in the order Not registered, Insufficient stake, No unstake
\* requested, Cooldown not elapsed.  On success the staked balance decreases
\* by the amount and the amount moves from the contract to the caller.
C12_Unstake ==
    \A sender \in Addr :
        \A amount \in UnstakeAmounts(sender) \cup {0, 1} :
            LET r == Try(sender, Call("unstake", "a1", amount, 0, <<>>, 0))
                registered == agents[sender].exists
                covered == amount <= agents[sender].staked
                pending == unstakeRequestedAt[sender] # 0
                elapsed == now >= unstakeRequestedAt[sender] + 86400
            IN  /\ r.ok <=> (registered /\ covered /\ pending /\ elapsed)
                /\ ~r.ok =>
                     r.err = IF ~registered THEN "Not registered"
                             ELSE IF ~covered THEN "Insufficient stake"
                             ELSE IF ~pending THEN "No unstake requested"
                             ELSE "Cooldown not elapsed"
                /\ r.ok =>
                     /\ r.agents = [agents EXCEPT ![sender].staked = @ - amount]
                     /\ r.bal = [bal EXCEPT ![Vault] = @ - amount,
                                            ![sender] = @ + amount]

\* a part of a stake was withdrawn exactly one day after the request
C12_Witness ==
    \E a \in Addr :
        /\ agents[a].staked = (25 * MIN_STAKE + 5) - 15 * MIN_STAKE
        /\ bal[a] = InitBal[a] - agents[a].staked
        /\ unstakeRequestedAt[a] = StartTime
        /\ now = StartTime + 86400

\* the effect of a successful cancelExpiredDeal on deal id: Expired, and the
\* whole escrow back with the creator
CancelledTo(r, id) ==
    LET d == DealAt(deals, id)
    IN  /\ r.ok
        /\ r.deals = [deals EXCEPT ![id + 1].status = "Expired"]
        /\ r.bal = [bal EXCEPT ![Vault] = @ - d.amount, ![d.creator] = @ + d.amount]

\* C13 as claimed: for every caller, party or not, registered or not,
\* cancelExpiredDeal fails with "Deal not expired" whenever now is before the
\* deal's expiry, and on an Active deal at or after its expiry it sets the
\* status to Expired and returns the whole escrow to the creator.
C13_CancelAnyStatus ==
    \A sender \in Addr, id \in DealIds :
        id < Len(deals) =>
            LET r == Try(sender, DealCall("cancelExpiredDeal", id))
                d == DealAt(deals, id)
            IN  /\ now < d.expiresAt => (~r.ok /\ r.err = "Deal not expired")
                /\ (d.status = "Active" /\ now >= d.expiresAt) => CancelledTo(r, id)

\* C13: for every caller, party or not, registered or not, cancelExpiredDeal
\* on an Active deal fails with "Deal not expired" when now is before the
\* deal's expiry and otherwise sets the status to Expired and returns the
\* whole escrow to the creator; on a deal that is not Active it fails with
\* "Deal not active", before or after the expiry.
C13_CancelExpiredDeal ==
    \A sender \in Addr, id \in DealIds :
        id < Len(deals) =>
            LET r == Try(sender, DealCall("cancelExpiredDeal", id))
                d == DealAt(deals, id)
            IN  /\ (d.status = "Active" /\ now < d.expiresAt) =>
                     (~r.ok /\ r.err = "Deal not expired")
                /\ (d.status = "Active" /\ now >= d.expiresAt) => CancelledTo(r, id)
                /\ d.status # "Active" => (~r.ok /\ r.err = "Deal not active")

\* an Active deal has reached its expiry and an identity that is neither
\* registered nor a party to it can cancel it
C13_Witness ==
    \E id \in DealIds :
        /\ id < Len(deals)
        /\ DealAt(deals, id).status = "Active"
        /\ now = DealAt(deals, id).expiresAt
        /\ \E a \in Addr :
             /\ ~agents[a].exists
             /\ a \notin {DealAt(deals, id).creator, DealAt(deals, id).counterparty}
             /\ CancelledTo(Try(a, DealCall("cancelExpiredDeal", id)), id)

\* C14: a successful cancelExpiredDeal leaves every agent's dealsCompleted,
\* dealsFailed, totalVolume and staked balance, every unstake request and
\* the deal's two confirmation flags as they were.
C14_CancelChangesNoStatistics ==
    \A sender \in Addr, id \in DealIds :
        LET r == Try(sender, DealCall("cancelExpiredDeal", id))
        IN  r.ok =>
            /\ r.agents = agents
            /\ r.unstakeRequestedAt = unstakeRequestedAt
            /\ DealAt(r.deals, id).creatorConfirmed = DealAt(deals, id).creatorConfirmed
            /\ DealAt(r.deals, id).counterpartyConfirmed
                 = DealAt(deals, id).counterpartyConfirmed

\* a deal confirmed by one party has expired while an agent holds a stake,
\* and can be cancelled
C14_Witness ==
    /\ \E id \in DealIds :
         /\ id < Len(deals)
         /\ DealAt(deals, id).creatorConfirmed # DealAt(deals, id).counterpartyConfirmed
         /\ Try(DealAt(deals, id).counterparty, DealCall("cancelExpiredDeal", id)).ok
    /\ \E a \in Addr : agents[a].staked > 0

\* the state after the first of two successive calls x
Once(x) == Run(Start(NoCall), x)

\* C15: on an Active deal that the other party has not confirmed, a second
\* confirmDeal by the same party is accepted and leaves agents, deals,
\* unstake requests and all balances as the first one left them.
C15_IdempotentConfirmation ==
    \A sender \in Addr, id \in DealIds :
        LET x == [sender |-> sender, call |-> DealCall("confirmDeal", id)]
            d == DealAt(deals, id)
        IN  (/\ id < Len(deals)
             /\ d.status = "Active"
             /\ sender \in {d.creator, d.counterparty}
             /\ IF sender = d.creator THEN ~d.counterpartyConfirmed
                                      ELSE ~d.creatorConfirmed) =>
                /\ Try(sender, x.call).ok
                /\ Dispatch(Resume(Once(x)), sender, x.call).ok
                /\ Engine(Then(x, x)) = Engine(Once(x))
                /\ DealAt(Then(x, x).deals, id).status = "Active"

\* an Active deal carries the confirmation of the counterparty only, who can
\* confirm again
C15_Witness ==
    \E id \in DealIds :
        /\ id < Len(deals)
        /\ DealAt(deals, id).status = "Active"
        /\ ~DealAt(deals, id).creatorConfirmed
        /\ DealAt(deals, id).counterpartyConfirmed
        /\ Try(DealAt(deals, id).counterparty, DealCall("confirmDeal", id)).ok

\* C16: createDeal fails with a not-registered error when the creator or the
\* counterparty is not registered, else with "Cannot deal with self" when
\* they are the same identity, else with "Amount must be positive" when the
\* amount is 0; on success it moves the amount from the creator to the
\* contract, changes no agent, and appends one deal that is Active, has both
\* flags false, the given creator, counterparty and amount, and the id
\* Len(deals) of before the call, which it returns.
C16_CreateDeal ==
    \A sender \in Addr, cp \in Addr, amount \in DealAmounts, dur \in {0, UNSTAKE_COOLDOWN} :
        LET r == Try(sender, Call("createDeal", cp, amount, 0, <<>>, dur))
            new == r.deals[Len(r.deals)]
        IN  /\ ~agents[sender].exists => (~r.ok /\ r.err = "Creator not registered")
            /\ (agents[sender].exists /\ ~agents[cp].exists) =>
                 (~r.ok /\ r.err = "Counterparty not registered")
            /\ (agents[sender].exists /\ sender = cp) =>
                 (~r.ok /\ r.err = "Cannot deal with self")
            /\ (agents[sender].exists /\ agents[cp].exists /\ sender # cp /\ amount <= 0) =>
                 (~r.ok /\ r.err = "Amount must be positive")
            /\ r.ok =>
                 /\ r.bal = [bal EXCEPT ![sender] = @ - amount, ![Vault] = @ + amount]
                 /\ r.agents = agents
                 /\ Len(r.deals) = Len(deals) + 1
                 /\ \A i \in 1..Len(deals) : r.deals[i] = deals[i]
                 /\ new.status = "Active"
                 /\ ~new.creatorConfirmed /\ ~new.counterpartyConfirmed
                 /\ new.creator = sender /\ new.counterparty = cp /\ new.amount = amount
                 /\ new.id = Len(deals)
                 /\ r.ret = Len(deals)

\* two deals were created by different creators and hold the ids 0 and 1
C16_Witness ==
    /\ Len(deals) = 2
    /\ deals[1].id = 0 /\ deals[2].id = 1
    /\ deals[1].creator # deals[2].creator
    /\ deals[1].status = "Active" /\ deals[2].status = "Active"
    /\ \A i \in 1..2 : bal[deals[i].creator] = InitBal[deals[i].creator] - deals[i].amount
    /\ bal[Vault] >= deals[1].amount + deals[2].amount

\* C17: stake fails with "Not registered" for an unregistered caller and with
\* "Below minimum stake" for a registered caller and an amount under
\* MIN_STAKE; on success it moves the amount from the caller to the
\* contract and adds it to the caller's staked balance, and changes no other
\* field of any agent, no deal and not the agent list.
C17_Stake ==
    \A sender \in Addr, amount \in {0, MIN_STAKE - 1, MIN_STAKE, 25 * MIN_STAKE + 5} :
        LET r == Try(sender, Call("stake", "a1", amount, 0, <<>>, 0))
        IN  /\ ~agents[sender].exists => (~r.ok /\ r.err = "Not registered")
            /\ (agents[sender].exists /\ amount < MIN_STAKE) =>
                 (~r.ok /\ r.err = "Below minimum stake")
            /\ (agents[sender].exists /\ amount >= MIN_STAKE /\ bal[sender] >= amount) => r.ok
            /\ r.ok =>
                 /\ r.bal = [bal EXCEPT ![sender] = @ - amount, ![Vault] = @ + amount]
                 /\ r.agents = [agents EXCEPT ![sender].staked = @ + amount]
                 /\ r.deals = deals
                 /\ r.agentList = agentList

\* an agent has staked twice and holds the sum, next to an agent that has
\* staked once
C17_Witness ==
    /\ \E a \in Addr :
         /\ agents[a].staked = 2 * (25 * MIN_STAKE + 5)
         /\ bal[a] = InitBal[a] - 2 * (25 * MIN_STAKE + 5)
    /\ \E a \in Addr : agents[a].staked = 25 * MIN_STAKE + 5

\* a name of exactly 32 one-byte characters
FullName == [i \in 1..32 |-> "x"]

C18_RegisterOutcome ==
    \A sender \in Addr, name \in Names \cup {FullName} :
        LET r == Try(sender, Call("registerAgent", "a1", 0, 0, name, 0))
        IN  /\ agents[sender].exists => (~r.ok /\ r.err = "Already registered")
            /\ (~agents[sender].exists /\ (Len(name) = 0 \/ Len(name) > 32)) =>
                 (~r.ok /\ r.err = "Invalid name length")
            /\ (~agents[sender].exists /\ ByteLength(name) \in 1..32) => r.ok
            /\ r.ok =>
                 /\ r.agents[sender].exists
                 /\ r.agents[sender].name = name
                 /\ r.agents[sender].staked = 0
                 /\ r.agents[sender].dealsCompleted = 0
                 /\ r.agents[sender].dealsFailed = 0
                 /\ r.agents[sender].totalVolume = 0
                 /\ r.unstakeRequestedAt[sender] = 0
                 /\ \A a \in Addr \ {sender} : r.agents[a] = agents[a]

C18_StaysRegistered ==
    \A a \in Addr : agents[a].exists => agents'[a].exists

\* C18: registerAgent fails with "Already registered" for a registered caller
\* whatever the name, and with "Invalid name length" for a new caller and a
\* name that is empty or longer than 32 characters; on success the caller's
\* record has staked, dealsCompleted, dealsFailed and totalVolume 0 and the
\* caller has no unstake request; no step makes a registered identity
\* unregistered.
C18_Register == [](C18_RegisterOutcome) /\ [][C18_StaysRegistered]_vars

\* an identity registered at the start is still registered a day later,
\* after staking, while another identity has not registered
C18_Witness ==
    /\ \E a \in Addr :
         /\ agents[a].exists /\ agents[a].registeredAt = StartTime
         /\ agents[a].name = AliceName
         /\ agents[a].staked > 0
    /\ now > StartTime
    /\ \E a \in Addr : ~agents[a].exists
    /\ steps < MaxSteps

\* the registered identities
Registered == {a \in Addr : agents[a].exists}

C19_ListMatchesTable ==
    /\ {agentList[i] : i \in 1..Len(agentList)} = Registered
    /\ Len(agentList) = Cardinality(Registered)
    /\ getAgentCount = Cardinality(Registered)
    /\ \A i \in 1..Len(agentList), j \in 1..Len(agentList) :
         i < j => agents[agentList[i]].registeredAt <= agents[agentList[j]].registeredAt

C19_ListOnlyGrowsAtEnd ==
    /\ Len(agentList') >= Len(agentList)
    /\ \A i \in 1..Len(agentList) : agentList'[i] = agentList[i]
    /\ \A i \in (Len(agentList) + 1)..Len(agentList') : ~agents[agentList'[i]].exists

\* C19: agentList holds exactly the identities whose agents record exists,
\* each once, so getAgentCount is their number; the list is in registration
\* order: a step only appends identities that were not registered, and the
\* registration times along the list never decrease.
C19_RegistrySynchronised == [](C19_ListMatchesTable) /\ [][C19_ListOnlyGrowsAtEnd]_vars

\* three identities are listed, the last registered a day or more after the
\* first
C19_Witness ==
    /\ Len(agentList) = 3
    /\ agents[agentList[1]].registeredAt < agents[agentList[3]].registeredAt

C20_NoCounterDecreases ==
    \A a \in Addr :
        /\ agents'[a].dealsCompleted >= agents[a].dealsCompleted
        /\ agents'[a].dealsFailed >= agents[a].dealsFailed
        /\ agents'[a].totalVolume >= agents[a].totalVolume

\* C20: no step decreases any agent's dealsCompleted, dealsFailed or
\* totalVolume.
C20_CountersMonotone == [][C20_NoCounterDecreases]_vars

\* an agent has a failed deal on record, a second deal exists, and further
\* transactions can follow
C20_Witness ==
    /\ \E a \in Addr : agents[a].dealsFailed = 1
    /\ \E i \in 1..Len(deals) : deals[i].status = "Disputed"
    /\ Len(deals) = 2
    /\ steps < MaxSteps

\* ------------------------------------------------------------- C21 .. C30
\* C21: a disputeDeal by a party of an Active deal while the other party's
\* staked balance is 0 succeeds with a single transfer, the escrow to the
\* creator, and the single event DealDisputed (no Slashed): the deal becomes
\* Disputed, no stake changes and the other party's dealsFailed increases
\* by 1.
C21_DisputeWithoutStake ==
    \A sender \in Addr, id \in DealIds :
        LET d == DealAt(deals, id)
            other == IF sender = d.creator THEN d.counterparty ELSE d.creator
            r == Try(sender, DealCall("disputeDeal", id))
        IN  (/\ id < Len(deals)
             /\ d.status = "Active"
             /\ sender \in {d.creator, d.counterparty}
             /\ agents[other].staked = 0) =>
                /\ r.ok
                /\ r.nxfer = 1
                /\ r.events = <<"DealDisputed">>
                /\ r.bal = [bal EXCEPT ![Vault] = @ - d.amount, ![d.creator] = @ + d.amount]
                /\ r.deals = [deals EXCEPT ![id + 1].status = "Disputed"]
                /\ r.agents = [agents EXCEPT ![other].dealsFailed = @ + 1]

\* a staked counterparty disputed a deal whose creator had no stake: the
\* creator has the failure on record and its tokens back, and the disputer
\* gained nothing
C21_Witness ==
    \E i \in 1..Len(deals) :
        /\ deals[i].status = "Disputed"
        /\ agents[deals[i].creator].dealsFailed = 1
        /\ agents[deals[i].creator].staked = 0
        /\ agents[deals[i].counterparty].dealsFailed = 0
        /\ agents[deals[i].counterparty].staked = 25 * MIN_STAKE + 5
        /\ bal[deals[i].creator] = InitBal[deals[i].creator]
        /\ bal[deals[i].counterparty] = InitBal[deals[i].counterparty] - (25 * MIN_STAKE + 5)

\* the execution record s with block.timestamp d seconds later
Later(s, d) == [s EXCEPT !.now = @ + d]

\* the call c by sender as the next transaction after r, d seconds later
NextCall(r, d, sender, c) == Dispatch(Later(Resume(r), d), sender, c)

\* C22: after a successful stake the caller's unstake request is cleared:
\* unstake of any amount up to the staked balance fails with "No unstake
\* requested", at once and after any delay; after a new requestUnstake it
\* fails with "Cooldown not elapsed" until a day has passed since that
\* request, and then succeeds.
C22_StakeClearsRequest ==
    \A sender \in Addr, amount \in StakeAmounts :
        LET r == Try(sender, Call("stake", "a1", amount, 0, <<>>, 0))
            all == Call("unstake", "a1", r.agents[sender].staked, 0, <<>>, 0)
            one == Call("unstake", "a1", 1, 0, <<>>, 0)
        IN  r.ok =>
            /\ r.unstakeRequestedAt[sender] = 0
            /\ \A d \in {0, UNSTAKE_COOLDOWN, DEFAULT_EXPIRY}, c \in {all, one} :
                 /\ ~NextCall(r, d, sender, c).ok
                 /\ NextCall(r, d, sender, c).err = "No unstake requested"
            /\ \A d \in {0, UNSTAKE_COOLDOWN} :
                 LET q == NextCall(r, d, sender, Call("requestUnstake", "a1", 0, 0, <<>>, 0))
                 IN  /\ q.ok
                     /\ \A e \in {0, UNSTAKE_COOLDOWN - 1} :
                          /\ ~NextCall(q, e, sender, all).ok
                          /\ NextCall(q, e, sender, all).err = "Cooldown not elapsed"
                     /\ NextCall(q, UNSTAKE_COOLDOWN, sender, all).ok

\* an agent whose unstake request has matured, so that it could withdraw its
\* whole stake, can stake again
C22_Witness ==
    \E a \in Addr :
        /\ unstakeRequestedAt[a] > 0
        /\ now >= unstakeRequestedAt[a] + UNSTAKE_COOLDOWN
        /\ Try(a, Call("unstake", "a1", agents[a].staked, 0, <<>>, 0)).ok
        /\ Try(a, Call("stake", "a1", 25 * MIN_STAKE + 5, 0, <<>>, 0)).ok

\* the values of the enum DealStatus
DealStatus == {"Active", "Completed", "Disputed", "Cancelled", "Expired"}

\* C23: no deal has the status Cancelled: the status of every deal is one of
\* Active, Completed, Disputed and Expired.
C23_NeverCancelled ==
    \A i \in 1..Len(deals) :
        /\ deals[i].status \in DealStatus
        /\ deals[i].status # "Cancelled"
        /\ deals[i].status \in {"Active", "Completed", "Disputed", "Expired"}

\* a deal was cancelled after its expiry and another deal is Active
C23_Witness ==
    /\ Len(deals) = 2
    /\ deals[1].status = "Expired"
    /\ deals[2].status = "Active"

MaxCrowd == 51
MaxCrowdStakers == 1
\* the number of registry entries the leaderboard reads
LeaderboardScan == 50

CrowdNames ==
    <<"c01", "c02", "c03", "c04", "c05", "c06", "c07", "c08", "c09",
      "c10", "c11", "c12", "c13", "c14", "c15", "c16", "c17", "c18",
      "c19", "c20", "c21", "c22", "c23", "c24", "c25", "c26", "c27",
      "c28", "c29", "c30", "c31", "c32", "c33", "c34", "c35", "c36",
      "c37", "c38", "c39", "c40", "c41", "c42", "c43", "c44", "c45",
      "c46", "c47", "c48", "c49", "c50", "c51", "c52", "c53">>

Crowd == {CrowdNames[i] : i \in 1..Len(CrowdNames)}

getAgentAt(_index) == agentList[_index + 1]

\* Array.prototype.sort with the comparator (a, b) => b.rep - a.rep: a stable
\* sort into non-increasing rep; x goes behind the entries that are not
\* smaller
RECURSIVE InsertByRep(_, _)
InsertByRep(sorted, x) ==
    IF sorted = <<>> THEN <<x>>
    ELSE IF Head(sorted).rep >= x.rep THEN <<Head(sorted)>> \o InsertByRep(Tail(sorted), x)
    ELSE <<x>> \o sorted

RECURSIVE SortByRep(_)
SortByRep(list) ==
    IF list = <<>> THEN <<>>
    ELSE InsertByRep(SortByRep(SubSeq(list, 1, Len(list) - 1)), list[Len(list)])

\* the entries the loop reads: indices 0 .. min(count, 50) - 1
Scanned ==
    [i \in 1.._min(getAgentCount, LeaderboardScan) |->
        LET addr == getAgentAt(i - 1)
        IN  [address |-> addr, name |-> agents[addr].name,
             rep |-> getReputation(agents, addr)]]

\* commands.leaderboard: the lines printed, in order
leaderboard == IF getAgentCount = 0 THEN <<>> ELSE SortByRep(Scanned)

\* fetchAgents: the array returned
fetchAgents == SortByRep(Scanned)

LeaderStep(sender, c) ==
    LET r == Dispatch(Start(NoCall), sender, c)
    IN  /\ r.ok
        /\ agents' = r.agents
        /\ agentList' = r.agentList
        /\ deals' = r.deals
        /\ unstakeRequestedAt' = r.unstakeRequestedAt
        /\ bal' = r.bal
        /\ UNCHANGED <<now, ticks, steps>>

LeaderRegister ==
    /\ Len(agentList) < MaxCrowd
    /\ LeaderStep(CrowdNames[Len(agentList) + 1],
                  Call("registerAgent", "a1", 0, 0, AliceName, 0))

LeaderStake ==
    \E sender \in Crowd :
        /\ Cardinality({a \in Crowd : agents[a].staked > 0}) < MaxCrowdStakers
        /\ agents[sender].staked = 0
        /\ LeaderStep(sender, Call("stake", "a1", 10 * MIN_STAKE, 0, <<>>, 0))

LeaderInit ==
    /\ agents = [a \in Crowd |-> NoAgent]
    /\ agentList = <<>>
    /\ deals = <<>>
    /\ unstakeRequestedAt = [a \in Crowd |-> 0]
    /\ bal = [a \in Crowd \cup {Vault} |-> IF a = Vault THEN 0 ELSE 10 * MIN_STAKE]
    /\ now = StartTime
    /\ ticks = 0
    /\ steps = 0

LeaderNext ==
    \/ LeaderRegister
    \/ LeaderStake

LeaderSpec == LeaderInit /\ [][LeaderNext]_vars

\* the board is in non-increasing order of rep, and no listed identity of
\* the registry that is missing from the board has a higher reputation than
\* an entry of the board
TopByReputation(board) ==
    /\ \A i \in 1..Len(board), j \in 1..Len(board) :
         i < j => board[i].rep >= board[j].rep
    /\ \A k \in 1..Len(agentList) :
         (\A i \in 1..Len(board) : board[i].address # agentList[k]) =>
            \A i \in 1..Len(board) :
                getReputation(agents, agentList[k]) <= board[i].rep

\* C25: the list of the CLI command leaderboard and the list of fetchAgents
\* are in non-increasing order of reputation, and no registered agent that
\* is absent from them has a higher reputation than an agent they show.
C25_LeaderboardTopByReputation ==
    /\ TopByReputation(leaderboard)
    /\ TopByReputation(fetchAgents)

\* the indices of the deals that the result r adds or changes
DealsTouched(r) ==
    {i \in 1..Len(r.deals) : i > Len(deals) \/ r.deals[i] # deals[i]}

\* the agents whose staked balance the result r changes
StakesTouched(r) == {a \in Addr : r.agents[a].staked # agents[a].staked}

\* the deal index and the identities that the call c by sender names
DealNamed(c) ==
    IF c.op \in {"confirmDeal", "disputeDeal", "cancelExpiredDeal"} THEN {c.id + 1}
    ELSE IF c.op = "createDeal" THEN {Len(deals) + 1}
    ELSE {}

AgentsNamed(sender, c) ==
    IF c.op \in {"confirmDeal", "disputeDeal", "cancelExpiredDeal"}
    THEN {sender, DealAt(deals, c.id).creator, DealAt(deals, c.id).counterparty}
    ELSE IF c.op = "createDeal" THEN {sender, c.cp}
    ELSE {sender}

\* C26: every successful call adds or changes at most one deal and changes
\* the staked balance of at most two agents; the deal is the one the call
\* names, and no agent other than the caller, the counterparty given to
\* createDeal and the parties of the named deal is changed.
C26_OneDealTwoStakes ==
    \A sender \in Addr :
        \A c \in AllCalls(sender) :
            LET r == Try(sender, c)
            IN  r.ok =>
                /\ Cardinality(DealsTouched(r)) <= 1
                /\ Cardinality(StakesTouched(r)) <= 2
                /\ DealsTouched(r) \subseteq DealNamed(c)
                /\ \A a \in Addr \ AgentsNamed(sender, c) : r.agents[a] = agents[a]

\* two deals are Active, three agents are registered, and a dispute of one
\* deal changes that deal and one staked balance
C26_Witness ==
    /\ Len(deals) = 2
    /\ deals[1].status = "Active" /\ deals[2].status = "Active"
    /\ \A a \in Addr : agents[a].exists
    /\ \E sender \in Addr, id \in DealIds :
         LET r == Try(sender, DealCall("disputeDeal", id))
         IN  /\ r.ok
             /\ DealsTouched(r) = {id + 1}
             /\ Cardinality(StakesTouched(r)) = 1

C27_ExpirySet ==
    /\ \A sender \in Addr, cp \in Addr, amount \in DealAmounts,
          dur \in {0, 1, UNSTAKE_COOLDOWN} :
            LET r == Try(sender, Call("createDeal", cp, amount, 0, <<>>, dur))
                new == r.deals[Len(r.deals)]
            IN  r.ok =>
                /\ new.createdAt = now
                /\ new.expiresAt = now + (IF dur > 0 THEN dur ELSE 7 * 86400)
                /\ new.expiresAt > new.createdAt
    /\ \A i \in 1..Len(deals) : deals[i].expiresAt > deals[i].createdAt

C27_ExpiryFrozen ==
    \A i \in 1..Len(deals) :
        /\ i <= Len(deals')
        /\ deals'[i].expiresAt = deals[i].expiresAt
        /\ deals'[i].createdAt = deals[i].createdAt

\* C27: createDeal sets expiresAt to now + expiryDuration when expiryDuration
\* is positive and to now + 7 days when it is 0; expiresAt of every deal is
\* greater than its createdAt, and no step changes either.
C27_ExpiryTimestamp == [](C27_ExpirySet) /\ [][C27_ExpiryFrozen]_vars

\* a deal created after the clock had advanced carries the default expiry of
\* its own creation time, and was confirmed by a party since
C27_Witness ==
    \E i \in 1..Len(deals) :
        /\ deals[i].createdAt > StartTime
        /\ deals[i].expiresAt = deals[i].createdAt + DEFAULT_EXPIRY
        /\ deals[i].creatorConfirmed

\* C28: a successful unstake clears the caller's unstake request exactly when
\* it leaves a staked balance of 0; when it leaves a positive balance the
\* request keeps its timestamp and an unstake of the rest succeeds at once;
\* no other identity's request changes.
C28_UnstakeClearsAtZero ==
    \A sender \in Addr :
        \A amount \in UnstakeAmounts(sender) \cup {0, 1} :
            LET r == Try(sender, Call("unstake", "a1", amount, 0, <<>>, 0))
                rest == Call("unstake", "a1", r.agents[sender].staked, 0, <<>>, 0)
            IN  r.ok =>
                /\ r.unstakeRequestedAt[sender] = 0 <=> r.agents[sender].staked = 0
                /\ r.agents[sender].staked > 0 =>
                     /\ r.unstakeRequestedAt[sender] = unstakeRequestedAt[sender]
                     /\ NextCall(r, 0, sender, rest).ok
                     /\ NextCall(r, 0, sender, rest).unstakeRequestedAt[sender] = 0
                /\ \A a \in Addr \ {sender} :
                     r.unstakeRequestedAt[a] = unstakeRequestedAt[a]

\* after a partial unstake the request of the start is still on record and
\* the rest can be withdrawn
C28_Witness ==
    \E a \in Addr :
        /\ agents[a].staked = (25 * MIN_STAKE + 5) - 15 * MIN_STAKE
        /\ unstakeRequestedAt[a] = StartTime
        /\ Try(a, Call("unstake", "a1", agents[a].staked, 0, <<>>, 0)).ok

\* C29: requestUnstake fails with "Not registered" for an unregistered caller
\* and with "Nothing staked" for a registered caller with staked balance 0;
\* otherwise it sets the caller's unstakeRequestedAt to now, replacing an
\* earlier request, and changes nothing else, so that unstake fails with
\* "Cooldown not elapsed" until a day after this request and succeeds then.
C29_RequestUnstake ==
    \A sender \in Addr :
        LET r == Try(sender, Call("requestUnstake", "a1", 0, 0, <<>>, 0))
            all == Call("unstake", "a1", agents[sender].staked, 0, <<>>, 0)
        IN  /\ ~agents[sender].exists => (~r.ok /\ r.err = "Not registered")
            /\ (agents[sender].exists /\ agents[sender].staked = 0) =>
                 (~r.ok /\ r.err = "Nothing staked")
            /\ (agents[sender].exists /\ agents[sender].staked > 0) =>
                 /\ r.ok
                 /\ r.unstakeRequestedAt = [unstakeRequestedAt EXCEPT ![sender] = now]
                 /\ r.agents = agents /\ r.deals = deals /\ r.bal = bal
                 /\ \A d \in {0, UNSTAKE_COOLDOWN - 1} :
                      /\ ~NextCall(r, d, sender, all).ok
                      /\ NextCall(r, d, sender, all).err = "Cooldown not elapsed"
                 /\ NextCall(r, UNSTAKE_COOLDOWN, sender, all).ok

\* an agent whose request has matured, so that it could withdraw now, can
\* issue the request again
C29_Witness ==
    \E a \in Addr :
        /\ unstakeRequestedAt[a] = StartTime
        /\ now >= StartTime + UNSTAKE_COOLDOWN
        /\ Try(a, Call("unstake", "a1", agents[a].staked, 0, <<>>, 0)).ok
        /\ Try(a, Call("requestUnstake", "a1", 0, 0, <<>>, 0)).ok

\* C30: a successful createDeal adds one deal and its amount to the total of
\* the Active deals; every other successful call leaves getDealCount as it
\* was and does not increase the total of the Active deals.
C30_OnlyCreateDealEscrows ==
    \A sender \in Addr :
        \A c \in AllCalls(sender) :
            LET r == Try(sender, c)
                before == SumActive(deals, Len(deals))
                after == SumActive(r.deals, Len(r.deals))
            IN  r.ok =>
                IF c.op = "createDeal"
                THEN /\ Len(r.deals) = getDealCount + 1
                     /\ after = before + c.amt
                ELSE /\ Len(r.deals) = getDealCount
                     /\ after <= before

\* a deal is Active next to one that was disputed: a further createDeal, a
\* confirmDeal and a cancelExpiredDeal can be tried with escrow in place
C30_Witness ==
    /\ Len(deals) = 2
    /\ deals[1].status = "Disputed"
    /\ deals[2].status = "Active"
    /\ SumActive(deals, Len(deals)) = deals[2].amount
    /\ \E a \in Addr : Try(a, DealCall("confirmDeal", 1)).ok

C31_DealIdentity ==
    \A i \in 1..Len(deals) :
        /\ deals[i].id = i - 1
        /\ deals[i].counterparty # deals[i].creator
        /\ deals[i].amount > 0

C31_HistoryKept ==
    /\ Len(deals') >= Len(deals)
    /\ \A i \in 1..Len(deals) :
         /\ deals'[i].id = deals[i].id
         /\ deals'[i].creator = deals[i].creator
         /\ deals'[i].counterparty = deals[i].counterparty
         /\ deals'[i].amount = deals[i].amount
         /\ deals'[i].createdAt = deals[i].createdAt
         /\ deals'[i].expiresAt = deals[i].expiresAt

\* C31: no step removes a deal or lowers getDealCount; the deal at index i
\* has id i, a counterparty other than its creator and a positive amount; and
\* no step changes the id, creator, counterparty, amount, createdAt or
\* expiresAt of a deal on record.
C31_AppendOnlyHistory == [](C31_DealIdentity) /\ [][C31_HistoryKept]_vars

\* two deals of different creators on record, the first one no longer Active
C31_Witness ==
    /\ Len(deals) = 2
    /\ deals[1].status # "Active"
    /\ deals[2].id = 1
    /\ deals[2].creator # deals[1].creator

\* the getter of the public mapping agents (MoltBond.sol:46): the stored
\* record of a key that was written, and the zero value of Agent for a key
\* that never was
agents_get(_agent) == agents[_agent]

NeverRegistered(a) == \A i \in 1..Len(agentList) : agentList[i] # a

\* the record read for an identity that never registered differs from the
\* record read for every registered agent
C32_Distinguishable ==
    \A a \in Addr, b \in Addr :
        (NeverRegistered(a) /\ ~NeverRegistered(b)) => agents_get(a) # agents_get(b)

\* C32: the record read for an identity that never registered differs from
\* the record of every registered agent and is not the default record (empty
\* name, every number 0, exists false).
C32_NotFoundNeverDefault ==
    /\ C32_Distinguishable
    /\ \A a \in Addr : NeverRegistered(a) => agents_get(a) # NoAgent

\* C33: in every reachable state a deal is Completed exactly when both its
\* creatorConfirmed and counterpartyConfirmed flags are set; an Active,
\* Disputed or Expired deal never has both.
C33_CompletedIffBothConfirmed ==
    \A i \in 1..Len(deals) :
        /\ deals[i].status = "Completed" <=>
             (deals[i].creatorConfirmed /\ deals[i].counterpartyConfirmed)
        /\ deals[i].status \in {"Active", "Disputed", "Expired"} =>
             ~(deals[i].creatorConfirmed /\ deals[i].counterpartyConfirmed)

\* a Completed deal carries both flags, with the clock past its expiry
C33_Witness ==
    \E i \in 1..Len(deals) :
        /\ deals[i].status = "Completed"
        /\ deals[i].creatorConfirmed /\ deals[i].counterpartyConfirmed
        /\ now >= deals[i].expiresAt

DealOps == {"confirmDeal", "disputeDeal", "cancelExpiredDeal"}

\* what a successful call r moved out of the staked balances
SlashedBy(r) == SumStaked(agents, Addr) - SumStaked(r.agents, Addr)

\* the escrow of the deal was paid to `recipient`, once, and the slash (if
\* any) to the caller; nobody else received anything
EscrowPaidOnce(r, sender, d, recipient) ==
    /\ r.nxfer = 1 + (IF SlashedBy(r) > 0 THEN 1 ELSE 0)
    /\ r.bal[Vault] = bal[Vault] - d.amount - SlashedBy(r)
    /\ \A a \in Addr :
         r.bal[a] = bal[a] + (IF a = recipient THEN d.amount ELSE 0)
                           + (IF a = sender THEN SlashedBy(r) ELSE 0)

C34_PayoutOfCall ==
    \A id \in DealIds, sender \in Addr, op \in DealOps :
        LET r == Try(sender, DealCall(op, id))
        IN  r.ok =>
            LET d == DealAt(deals, id)
                e == DealAt(r.deals, id)
            IN  /\ d.status = "Active"
                /\ e.status = "Active" => (r.bal = bal /\ r.nxfer = 0)
                /\ e.status = "Completed" => EscrowPaidOnce(r, sender, d, d.counterparty)
                /\ e.status \in {"Disputed", "Expired"} =>
                     EscrowPaidOnce(r, sender, d, d.creator)
                /\ e.status # "Active" =>
                     \A other \in Addr, next \in DealOps :
                        LET r2 == NextCall(r, 0, other, DealCall(next, id))
                        IN  ~r2.ok /\ r2.err = "Deal not active"
                /\ \A next \in DealOps, k \in {1, 2} :
                     LET h == Dispatch(Start([DealCall(next, id) EXCEPT !.at = k]),
                                       sender, DealCall(op, id))
                     IN  ~(h.ok /\ h.cbRan)

\* C34: a successful confirmDeal, disputeDeal or cancelExpiredDeal acts on an
\* Active deal; if the deal stays Active no token moves, and if it leaves
\* Active its amount is transferred once, to the counterparty when it ends
\* Completed and to the creator when it ends Disputed or Expired; once a
\* deal has left Active every further such call, by any caller, directly or
\* from a transfer hook of the call that ended it, fails with "Deal not
\* active" and pays nothing.
C34_SinglePayout == []C34_PayoutOfCall

\* a deal that one party confirmed and the other disputed is past its
\* expiry: its escrow is back with the creator and a cancelExpiredDeal by a
\* third identity is refused
C34_Witness ==
    \E i \in 1..Len(deals) :
        /\ deals[i].status = "Disputed"
        /\ deals[i].creatorConfirmed \/ deals[i].counterpartyConfirmed
        /\ now >= deals[i].expiresAt
        /\ bal[deals[i].creator] >= InitBal[deals[i].creator]
        /\ \E a \in Addr \ {deals[i].creator, deals[i].counterparty} :
             Try(a, DealCall("cancelExpiredDeal", i - 1)).err = "Deal not active"

\* ------------------------------------------------- escrow is never stuck
\* The transactions of Spec, with a clock that keeps advancing while an
\* Active deal has not reached its expiry and with cancelExpiredDeal open to
\* every caller; these two steps are outside the step budget.
TimePasses ==
    /\ \E i \in 1..Len(deals) : deals[i].status = "Active" /\ now < deals[i].expiresAt
    /\ now' = now + DEFAULT_EXPIRY
    /\ UNCHANGED <<agents, agentList, deals, unstakeRequestedAt, bal, ticks, steps>>

CancelWhenExpired(id) ==
    \E sender \in Addr :
        LET r == Try(sender, DealCall("cancelExpiredDeal", id))
        IN  /\ r.ok
            /\ agents' = r.agents
            /\ agentList' = r.agentList
            /\ deals' = r.deals
            /\ unstakeRequestedAt' = r.unstakeRequestedAt
            /\ bal' = r.bal
            /\ UNCHANGED <<now, ticks, steps>>

SomeoneCancels == \E id \in DealIds : CancelWhenExpired(id)

\* at most MaxLiveSteps steps besides those two
MaxLiveSteps == 5

InBudget == steps < MaxLiveSteps

LiveNext ==
    \/ InBudget /\ RegisterAgent
    \/ InBudget /\ Stake
    \/ InBudget /\ RequestUnstake
    \/ InBudget /\ Unstake
    \/ InBudget /\ CreateDeal
    \/ InBudget /\ ConfirmDeal
    \/ InBudget /\ DisputeDeal
    \/ InBudget /\ CancelExpiredDeal
    \/ InBudget /\ Tick
    \/ TimePasses
    \/ SomeoneCancels

LiveSpec ==
    /\ Init
    /\ [][LiveNext]_vars
    /\ WF_vars(TimePasses)
    /\ \A id \in DealIds : WF_vars(CancelWhenExpired(id))

\* cancelExpiredDeal succeeds for every caller on every Active deal whose
\* expiry has been reached
C35_CancelEnabled ==
    \A i \in 1..Len(deals) :
        (deals[i].status = "Active" /\ now >= deals[i].expiresAt) =>
            \A sender \in Addr : Try(sender, DealCall("cancelExpiredDeal", i - 1)).ok

OnRecord(id) == id < Len(deals)

Settled(id) ==
    /\ OnRecord(id)
    /\ DealAt(deals, id).status \in {"Completed", "Disputed", "Expired"}
    /\ bal[Vault] = SumStaked(agents, Addr) + SumActive(deals, Len(deals))

\* C35: cancelExpiredDeal succeeds for every caller on an Active deal once
\* now >= expiresAt, whatever the confirmation flags and the stakes; and if
\* the clock advances and an enabled cancelExpiredDeal is eventually taken,
\* every deal on record eventually has a terminal status, the contract
\* holding only the stakes and the amounts of the deals still Active.
C35_NoStuckEscrow ==
    /\ [](C35_CancelEnabled)
    /\ \A id \in DealIds : OnRecord(id) ~> Settled(id)

\* the step budget is used up and a deal that its counterparty confirmed,
\* made by a staked creator, has been cancelled after its expiry
C35_Witness ==
    \E i \in 1..Len(deals) :
        /\ steps = MaxLiveSteps
        /\ deals[i].status = "Expired"
        /\ deals[i].counterpartyConfirmed
        /\ agents[deals[i].creator].staked > 0
        /\ Settled(i - 1)

\* C36: an agent with a pending unstake request has a staked balance above
\* 0; a successful disputeDeal leaves every positive staked balance positive
\* and every unstake request as it was.
C36_PendingImpliesStake ==
    /\ \A a \in Addr : unstakeRequestedAt[a] > 0 => agents[a].staked > 0
    /\ \A sender \in Addr, id \in DealIds :
         LET r == Try(sender, DealCall("disputeDeal", id))
         IN  r.ok =>
             /\ \A a \in Addr : agents[a].staked > 0 => r.agents[a].staked > 0
             /\ r.unstakeRequestedAt = unstakeRequestedAt

\* an agent whose request is pending has been slashed: the request and nine
\* tenths of the stake are still there
C36_Witness ==
    \E a \in Addr :
        /\ unstakeRequestedAt[a] > 0
        /\ agents[a].dealsFailed = 1
        /\ agents[a].staked > 0
        /\ agents[a].staked < 25 * MIN_STAKE + 5

C37_CallChangesOwnRequest ==
    \A sender \in Addr :
        \A c \in AllCalls(sender) :
            LET r == Try(sender, c)
            IN  r.ok =>
                \A a \in Addr :
                    r.unstakeRequestedAt[a] # unstakeRequestedAt[a] =>
                        /\ a = sender
                        /\ c.op \in {"stake", "requestUnstake", "unstake"}

\* C37: a successful call changes the unstake request of no identity but the
\* caller, and the caller's own only when the call is stake, requestUnstake
\* or unstake.
C37_RequestOwnedByAgent == []C37_CallChangesOwnRequest

\* an agent with a pending request is the creator of an Active deal that its
\* counterparty can dispute, slashing the agent, or follow with a deal of its
\* own that names the agent
C37_Witness ==
    \E a \in Addr, b \in Addr, id \in DealIds :
        /\ a # b
        /\ unstakeRequestedAt[a] > 0
        /\ Try(b, DealCall("disputeDeal", id)).ok
        /\ Try(b, DealCall("disputeDeal", id)).agents[a].staked < agents[a].staked
        /\ Try(b, Call("createDeal", a, MIN_STAKE, 0, <<>>, 0)).ok

C38_CallShrinksStake ==
    \A sender \in Addr :
        \A c \in AllCalls(sender) :
            LET r == Try(sender, c)
            IN  r.ok =>
                \A a \in Addr :
                    LET loss == agents[a].staked - r.agents[a].staked
                    IN  loss > 0 =>
                        \/ /\ c.op = "unstake"
                           /\ a = sender
                           /\ loss = c.amt
                        \/ /\ c.op = "disputeDeal"
                           /\ c.id < Len(deals)
                           /\ DealAt(deals, c.id).status = "Active"
                           /\ a # sender
                           /\ {a, sender} = {DealAt(deals, c.id).creator,
                                             DealAt(deals, c.id).counterparty}
                           /\ loss = (agents[a].staked * 10) \div 100
                           /\ \A x \in Addr :
                                r.bal[x] = bal[x]
                                  + (IF x = sender THEN loss ELSE 0)
                                  + (IF x = DealAt(deals, c.id).creator
                                     THEN DealAt(deals, c.id).amount ELSE 0)

\* C38: a successful call lowers the staked balance of an agent only when it
\* is that agent's own unstake, by the amount asked, or a disputeDeal on an
\* Active deal by the other party of the deal, by floor(staked * 10 / 100),
\* which the disputer receives and nobody else.
C38_StakeShrinksTwoWays == []C38_CallShrinksStake

\* a counterparty with a pending request was slashed by the creator of the
\* deal, who holds the rounded-down tenth besides the refund
C38_Witness ==
    \E i \in 1..Len(deals) :
        LET d == deals[i]
        IN  /\ d.status = "Disputed"
            /\ agents[d.counterparty].staked = (25 * MIN_STAKE + 5) - 2500000
            /\ agents[d.counterparty].dealsFailed = 1
            /\ unstakeRequestedAt[d.counterparty] > 0
            /\ bal[d.creator] = InitBal[d.creator] + 2500000

WithFlags(s, id, f1, f2) ==
    [s EXCEPT !.deals[id + 1].creatorConfirmed = f1,
              !.deals[id + 1].counterpartyConfirmed = f2]

\* C39: disputeDeal succeeds or fails, and with the same error, whatever the
\* confirmation flags of the deal, and its effects on agents, balances,
\* unstake requests, the deal's status and the events are the same; either
\* party of an Active deal can dispute it after confirming, and the other
\* party is slashed and charged a dealsFailed whether or not it confirmed.
C39_DisputeIgnoresConfirmations ==
    \A id \in DealIds, sender \in Addr :
        id < Len(deals) =>
            LET r == Try(sender, DealCall("disputeDeal", id))
                d == DealAt(deals, id)
                other == IF sender = d.creator THEN d.counterparty ELSE d.creator
            IN  /\ \A f1 \in BOOLEAN, f2 \in BOOLEAN :
                     LET q == Dispatch(WithFlags(Start(NoCall), id, f1, f2), sender,
                                       DealCall("disputeDeal", id))
                     IN  /\ q.ok = r.ok
                         /\ q.err = r.err
                         /\ r.ok =>
                              /\ q.agents = r.agents
                              /\ q.bal = r.bal
                              /\ q.unstakeRequestedAt = r.unstakeRequestedAt
                              /\ q.events = r.events
                              /\ q.deals = WithFlags(r, id, f1, f2).deals
                /\ (d.status = "Active" /\ sender \in {d.creator, d.counterparty}) =>
                     /\ r.ok
                     /\ r.agents[other].dealsFailed = agents[other].dealsFailed + 1
                     /\ r.agents[other].staked =
                          agents[other].staked - (agents[other].staked * 10) \div 100

\* the staked creator of an Active deal has confirmed it: it can still
\* dispute, and a dispute by the counterparty slashes it
C39_Witness ==
    \E i \in 1..Len(deals) :
        /\ deals[i].status = "Active"
        /\ deals[i].creatorConfirmed
        /\ agents[deals[i].creator].staked > 0
        /\ Try(deals[i].creator, DealCall("disputeDeal", i - 1)).ok
        /\ Try(deals[i].counterparty, DealCall("disputeDeal", i - 1)).agents[deals[i].creator].staked
             < agents[deals[i].creator].staked

\* agent records with up to MaxHistory completed and MaxHistory failed deals
MaxHistory == 3

\* stake, completed deals, failed deals and volume of an agent with a
\* history: the volume is that of its completed deals
Histories ==
    {h \in [staked : {0, 5 * MIN_STAKE, 25 * MIN_STAKE + 5},
            completed : 0..MaxHistory, failed : 0..MaxHistory,
            volume : {0, 50 * MIN_STAKE, 1000 * MIN_STAKE}] :
        h.completed = 0 <=> h.volume = 0}

\* getReputation of an agent with the given stake, counters and volume
Score(staked, completed, failed, volume) ==
    getReputation([a \in {"a1"} |->
                     [name |-> AliceName, staked |-> staked, dealsCompleted |-> completed,
                      dealsFailed |-> failed, totalVolume |-> volume,
                      registeredAt |-> StartTime, exists |-> TRUE]], "a1")

\* one more failed deal with a tenth of the stake slashed does not raise the
\* score of a history, and one more completed deal does not lower it
LongerHistories ==
    \A h \in Histories :
        LET before == Score(h.staked, h.completed, h.failed, h.volume)
        IN  /\ Score(h.staked - (h.staked * SLASH_PERCENT) \div 100, h.completed,
                     h.failed + 1, h.volume) <= before
            /\ \A amount \in {1, 1000 * MIN_STAKE} :
                 Score(h.staked, h.completed + 1, h.failed, h.volume + amount) >= before

\* C40: a successful disputeDeal does not raise getReputation of the party it
\* slashes, and a confirmDeal that completes a deal does not lower
\* getReputation of the creator or of the counterparty; the same holds for
\* agents with longer histories than the deals on record.
C40_ReputationDirection ==
    /\ \A id \in DealIds, sender \in Addr :
         id < Len(deals) =>
            LET d == DealAt(deals, id)
                other == IF sender = d.creator THEN d.counterparty ELSE d.creator
                x == Try(sender, DealCall("disputeDeal", id))
                c == Try(sender, DealCall("confirmDeal", id))
            IN  /\ x.ok => getReputation(x.agents, other) <= getReputation(agents, other)
                /\ (c.ok /\ DealAt(c.deals, id).status = "Completed") =>
                     /\ getReputation(c.agents, d.creator) >= getReputation(agents, d.creator)
                     /\ getReputation(c.agents, d.counterparty)
                          >= getReputation(agents, d.counterparty)
    /\ LongerHistories

\* an Active deal that the staked counterparty confirmed: the creator can
\* complete it, raising both scores, or dispute it, lowering none
C40_Witness ==
    \E i \in 1..Len(deals) :
        LET d == deals[i]
            c == Try(d.creator, DealCall("confirmDeal", i - 1))
        IN  /\ d.status = "Active"
            /\ d.counterpartyConfirmed
            /\ agents[d.counterparty].staked > 0
            /\ c.ok
            /\ getReputation(c.agents, d.counterparty) > getReputation(agents, d.counterparty)
            /\ Try(d.creator, DealCall("disputeDeal", i - 1)).ok

=============================================================================
